---- MODULE Spec2Model ----
(***************************************************************************)
(* laskjs: the task registry (Lask.task) and the dispatcher (Lask.bite).   *)
(*                                                                         *)
(* The repository holds three generations of the dispatcher, and the       *)
(* model keeps all three, selected by the variable "variant":              *)
(*   "bindings"   src/unnamed/part_003: named input and output bindings,   *)
(*                each custom input with its Reader and Decoder, each      *)
(*                output with its Encoder and Writer, run under cmd-ts;    *)
(*   "signature"  src/src/Lask.ts: one input/output signature per task,    *)
(*                standard input read with isTerminal(), result printed    *)
(*                with console.log, run under cmd-ts;                      *)
(*   "plain"      src/unnamed/part_004 lines 1-47: a name-to-function      *)
(*                map looked up with Deno.args[0].                         *)
(*                                                                         *)
(* JavaScript runs one turn to completion: a continuation of an awaited    *)
(* promise (a write that completes) runs only once the running turn has    *)
(* ended.  The positions of the async command handler are the values of    *)
(* pc; the writes begun by it live in "writes".                            *)
(*                                                                         *)
(* Beside the dispatcher (Spec) the module holds smaller programs:   *)
(*   SpecFunc    the dispatcher with user code that also calls the         *)
(*               functions task() returned;                                *)
(*   SpecShell   one call of Effect.$ (src/src/Effect.ts);                 *)
(*   SpecCodec   a codec bound to a schema that decodes one text           *)
(*               (src/src/DataType/JSON.ts, src/unnamed/part_007 and       *)
(*               part_008);                                                *)
(*   SpecRound   an encoder encodes a value and the decoder of the same    *)
(*               family decodes the text (JSON.ts, part_008, File.ts);     *)
(*   SpecSurface the commands bite() compiles from the registry;           *)
(*   SpecRun     a run of add, create-file, echo or ls with its data, from *)
(*               the command line to the output streams;                   *)
(*   SpecAwait   the dispatcher with handlers that await Effect.$;         *)
(*   SpecCall    a script that registers tasks and calls the functions     *)
(*               task() returned, without bite().                          *)
(***************************************************************************)
EXTENDS Integers, Sequences, FiniteSets, TLC

\* ---------------------------------------------------------------- bounds
MaxRegs == 2       \* calls of task() before bite()
MaxOutputs == 2    \* output bindings of one task
MaxText == 3       \* characters a command writes to its standard output
MaxItems == 2      \* items of a decoded array
MaxDepth == 4      \* nesting depth of an encoded value
MaxInputs == 2     \* entries of an inputs object compiled to a command
MaxOperand == 3    \* largest number typed on the command line

\* ------------------------------------------------------------- the domain
Variants == {"bindings", "signature", "plain"}

TaskNames == {"foo", "bar"}

\* What Deno.args[0] may hold: a registered name or a name nobody registered.
ArgNames == TaskNames \cup {"nope"}

\* Input<T>["kind"] of the bindings generation.
InputKinds == {"param", "custom"}

\* The inputs objects a registration passes, as the list of the kinds of its
\* keys in declaration order: none (ls), two params (add), a param and a
\* channel-bound input (create-file), two channel-bound inputs.
InputLists ==
    { <<>>, <<"param", "param">>, <<"param", "custom">>, <<"custom", "custom">> }

\* The registry entry of a name nobody registered (tasks[name] is undefined).
NoTask == [func |-> 0]

\* No Effect: what a handler that was never called has received.
NoEffect == [id |-> 0, tag |-> ""]

\* The inputs user code hands to a function task() returned.
CallInputs == {"x", "y"}

\* No function called yet.
NoCall == [func |-> 0, effect |-> NoEffect, given |-> "", received |-> "",
           invoked |-> 0, result |-> [by |-> "", of |-> ""],
           returned |-> [by |-> "", of |-> ""]]

\* The second and later arguments of task(), per generation.
TaskShapes(v) ==
    CASE v = "bindings" ->
            [inputs : InputLists, outputs : 0..MaxOutputs]
      [] v = "signature" ->
            [decoder : BOOLEAN, encoder : BOOLEAN]
      [] OTHER -> {[plain |-> TRUE]}

\* ------------------------------------------------- Effect.$ (Effect.ts)
\* The characters of a command's output: letters, a blank and a newline.
Chars == {"a", "b", " ", "\n"}

Whitespace == {" ", "\n"}

\* The texts a command may write to its standard output.
Texts == UNION {[1..n -> Chars] : n \in 0..MaxText}

\* The texts a command may write to its standard error.
Stderrs == { <<>>, <<"b">>, <<"b", "\n">> }

\* output.code: success and two failure statuses.
ExitCodes == {0, 1, 2}

\* No value: a call that has not returned, or has thrown.
NoText == <<"undefined">>

\* No error thrown.
NoError == [name |-> ""]

\* Effect.$ before it is called.
ShIdle == [pc |-> "idle", code |-> 0, stdout |-> <<>>, stderr |-> <<>>,
           log |-> <<>>, result |-> NoText, thrown |-> NoError]

\* ------------------------------------- the codecs (JSON.ts, part_007/008)
\* The values a parser hands back, by what typeof, Array.isArray and
\* instanceof Date tell apart.
Undef == [t |-> "undefined"]

Null == [t |-> "null"]

Bool(b) == [t |-> "boolean", b |-> b]

Num(n) == [t |-> "number", n |-> n]

Str(s) == [t |-> "string", s |-> s]

DateValue == [t |-> "date"]

Arr(items) == [t |-> "array", items |-> items]

Obj(fields) == [t |-> "object", fields |-> fields]

\* The keys of the decoded objects and of the object schemas.
Keys == {"k", "x"}

Scalars == {Undef, Null, Bool(TRUE), Num(1), Str("a"), DateValue}

\* What an array or an object holds: any scalar but undefined.
Elems == Scalars \ {Undef}

\* Arrays and objects that stand inside another array or object.
Nested ==
    { Arr(<<Num(1)>>), Arr(<<Str("a")>>),
      Obj([key \in {"k"} |-> Num(1)]), Obj([key \in {"k"} |-> Str("a")]) }

\* The values a parse may yield.
Values ==
    Elems
    \cup {Arr(items) : items \in UNION {[1..n -> Elems] : n \in 0..MaxItems}}
    \cup {Obj(fields) : fields \in UNION {[ks -> Elems] : ks \in SUBSET Keys}}
    \cup {Arr(items) : items \in UNION {[1..n -> Nested] : n \in 1..MaxItems}}
    \cup {Obj([key \in {"k"} |-> v]) : v \in Nested}

\* yamlParse / JSON.parse throws: the text is not of the wire family.
ParseFailure == [t |-> "unparseable"]

\* What yamlParse does with a raw text: it throws or yields a value.
ParseOutcomes == Values \cup {ParseFailure}

\* The values JSON.parse yields: JSON has no dates.
RECURSIVE JSONValue(_)
JSONValue(v) ==
    CASE v.t = "array" -> \A i \in 1..Len(v.items) : JSONValue(v.items[i])
      [] v.t = "object" -> \A key \in DOMAIN v.fields : JSONValue(v.fields[key])
      [] OTHER -> v.t \in {"null", "boolean", "number", "string"}

\* What JSON.parse does with a raw text.
JSONOutcomes == {v \in Values : JSONValue(v)} \cup {ParseFailure}

\* The schemas: { type }, { type: "array", elements } and { type: "object",
\* properties }, the properties in the order Object.entries lists them.
ScalarSchemas ==
    {[type |-> ty] :
        ty \in {"void", "null", "boolean", "number", "string", "date"}}

ArraySchema(elements) == [type |-> "array", elements |-> elements]

Prop(key, schema) == [key |-> key, schema |-> schema]

ObjectSchema(properties) == [type |-> "object", properties |-> properties]

NestedSchemas ==
    { ArraySchema([type |-> "number"]),
      ObjectSchema(<<Prop("k", [type |-> "number"])>>) }

Schemas ==
    ScalarSchemas
    \cup {ArraySchema(e) : e \in ScalarSchemas \cup NestedSchemas}
    \cup {ObjectSchema(<<>>)}
    \cup {ObjectSchema(<<Prop("k", e)>>) :
             e \in ScalarSchemas \cup NestedSchemas}
    \cup {ObjectSchema(<<Prop("k", e), Prop("x", f)>>) :
             e \in {[type |-> "number"], [type |-> "void"]},
             f \in {[type |-> "string"], [type |-> "void"]}}

\* The codecs a registration binds to a schema: json(schema) and
\* JSONInput(schema), YAMLInput(schema), YAMLInput(schema, {validate: true}).
Codecs == {"json", "yaml", "yamlValidate"}

\* No schema handed to the decoder (new YAMLDecoder(undefined)).
NoSchema == [type |-> "none"]

\* A decoder that has not been constructed.
DcIdle == [pc |-> "idle", codec |-> "", schema |-> NoSchema,
           parsed |-> Undef, returned |-> Undef, thrown |-> NoError]

\* ------------------------------------------ encode, then decode
\* A number JSON has no text for.
NaN == [t |-> "number", nan |-> TRUE]

\* The values without anything inside: the scalars, a string that reads as
\* a number, the empty array and the empty object.
Leaves ==
    { Null, Bool(TRUE), Num(1), NaN, Str("a"), Str("1"), Arr(<<>>), Obj(<<>>) }

\* The values nested d deep at most: a value, an array of one, an object
\* that holds one under "k".
RECURSIVE Nest(_)
Nest(d) ==
    IF d = 0 THEN Leaves
    ELSE LET inner == Nest(d - 1) IN
         inner \cup {Arr(<<v>>) : v \in inner}
               \cup {Obj([key \in {"k"} |-> v]) : v \in inner}

\* Arrays of two items and objects of two keys.
Pairs ==
    LET both == [key \in Keys |-> IF key = "k" THEN Num(1) ELSE Str("a")] IN
    { Arr(<<Num(1), Num(1)>>), Arr(<<Str("a"), Str("1")>>), Obj(both),
      Arr(<<Obj(both), Obj(both)>>),
      Arr(<<Arr(<<Num(1), Num(1)>>), Arr(<<>>)>>),
      Obj([key \in Keys |->
              IF key = "k" THEN Arr(<<Num(1), Num(1)>>) ELSE Obj(both)]) }

\* The values handed to an encoder: every one conforms to a schema (the
\* items of an array are of one shape), undefined conforming to void.
RoundValues == {Undef} \cup Nest(MaxDepth) \cup Pairs

\* The codec families: json() / JSONEncoder and JSONDecoder, YAMLEncoder
\* and YAMLDecoder, string().
Families == {"json", "yaml", "string"}

\* The decimal text of a small number, and the number of a decimal text.
NumberTokens == <<"0", "1", "2", "3", "4", "5", "6", "7", "8", "9">>

NumToken(n) == NumberTokens[n + 1]

IsNumToken(tok) == \E n \in 0..9 : NumToken(n) = tok

TokenNum(tok) == CHOOSE n \in 0..9 : NumToken(n) = tok

\* What an encoder hands back: the tokens of a JSON text, the lines of a
\* YAML text, the value itself (string() casts), or undefined.
TokenText(toks) == [kind |-> "tokens", toks |-> toks]

LineText(lines) == [kind |-> "lines", lines |-> lines]

ValueText(v) == [kind |-> "value", value |-> v]

UndefinedText == [kind |-> "undefined"]

\* No encoder called yet.
RtIdle == [pc |-> "idle", family |-> "", value |-> Undef,
           text |-> UndefinedText, returned |-> Undef, thrown |-> NoError]

\* --------------------------------------------- the command surface
\* The sources of bite(): src/unnamed/part_001 (params and channel-bound
\* inputs), part_003 (options added, descriptions added), part_004 lines
\* 49-328 (signature.param), src/src/Lask.ts (args: {}).
Generations == {"part_001", "part_003", "part_004", "Lask.ts"}

\* The keys of an inputs object, in declaration order.
KeyNames == <<"a", "b", "c">>

\* A description nobody gave, a short flag nobody gave.
NotGiven == "undefined"

\* param({type, description}), option({type, long, description}),
\* input(reader, decoder), and an entry of signature.param.
Param(type, description) ==
    [kind |-> "param", type |-> type, description |-> description]

Option(type, long, description) ==
    [kind |-> "option", type |-> type, long |-> long, short |-> NotGiven,
     description |-> description]

Custom == [kind |-> "custom"]

ParamSchema(type, description) == [type |-> type, description |-> description]

\* The entries a registration may pass, per source.
InputEntries(gen) ==
    CASE gen = "part_001" ->
            { [kind |-> "param", type |-> "string"],
              [kind |-> "param", type |-> "number"], Custom }
      [] gen = "part_003" ->
            { Param("string", "d"), Param("number", "d"),
              Param("number", NotGiven), Option("number", "long", "d"),
              Option("string", "long", NotGiven), Custom }
      [] gen = "part_004" ->
            { ParamSchema("string", "d"), ParamSchema("number", "d"),
              ParamSchema("number", NotGiven) }
      [] gen = "Lask.ts" -> {}

\* The inputs objects (signature.param of part_004): lists of entries, the
\* i-th under the key KeyNames[i].
EntryLists(gen) ==
    UNION { [1..n -> InputEntries(gen)] : n \in 0..MaxInputs }

\* A name nobody registered, and a registered one with its inputs.
NotDeclared == [declared |-> FALSE, inputs |-> <<>>]

Declared(inputs) == [declared |-> TRUE, inputs |-> inputs]

\* No task registered, nothing compiled.
CsIdle == [pc |-> "registering", gen |-> "",
           tasks |-> [name \in TaskNames |-> NotDeclared],
           commands |-> <<>>]

\* ------------------------------------------------ a run with its data
\* The tasks run with their data: add, create-file and ls
\* (example/01-basic/main.lask.ts), and echo, which hands its string input
\* back as its output.
RunTasks == {"add", "create-file", "echo", "ls"}

\* The inputs each of them declares, in declaration order.
RunInputs(taskName) ==
    CASE taskName = "add" ->
            << [key |-> "a", kind |-> "param", type |-> "number"],
               [key |-> "b", kind |-> "param", type |-> "number"] >>
      [] taskName = "create-file" ->
            << [key |-> "filename", kind |-> "param", type |-> "string"],
               [key |-> "content", kind |-> "custom", type |-> "json"] >>
      [] taskName = "echo" ->
            << [key |-> "input", kind |-> "custom", type |-> "string"] >>
      [] taskName = "ls" -> <<>>

\* The keys of the outputs each of them declares.
RunOutputs(taskName) == IF taskName = "ls" THEN <<>> ELSE <<"output">>

\* The param entries of an inputs list (the positionals, in order) and its
\* channel-bound entries.
ParamsOf(inputs) == SelectSeq(inputs, LAMBDA e : e.kind = "param")

CustomsOf(inputs) == SelectSeq(inputs, LAMBDA e : e.kind = "custom")

KeySet(entries) == {entries[i].key : i \in 1..Len(entries)}

EntryOf(entries, key) ==
    entries[CHOOSE i \in 1..Len(entries) : entries[i].key = key]

PositionOf(entries, key) ==
    CHOOSE i \in 1..Len(entries) : entries[i].key = key

\* What is typed after `add`: decimal numbers, or a word that is none.
OperandTokens == {NumberTokens[n + 1] : n \in 0..MaxOperand} \cup {"x"}

\* Standard input: a terminal, or a pipe holding a text.
AtTerminal == [kind |-> "terminal"]

PipedTexts ==
    { ValueText(Str("hello")), ValueText(Str("")),
      TokenText(<<"\"", "hello", "\"">>) }

\* {}: the record without keys.
Empty == <<>>

\* No run started.
ScIdle == [pc |-> "idle", gen |-> "", task |-> "", argv |-> <<>>,
           encoder |-> TRUE,
           stdin |-> AtTerminal, args |-> Empty, inputs |-> Empty,
           received |-> Empty, result |-> Undef, emitted |-> <<>>,
           stdout |-> <<>>, stderr |-> <<>>]

VARIABLES
    variant,       \* which generation of Lask runs
    isTerminal,    \* Deno.stdin.isTerminal()
    tasks,         \* Lask.tasks: name -> registered entry, or NoTask
    regCount,      \* number of task() calls so far; names the closure "func"
    lastReg,       \* the arguments of the latest task() call
    argv,          \* Deno.args[0]
    pc,            \* position of the dispatch
    cur,           \* the entry the running command handler closed over
    inIdx,         \* index of the input key the custom-input loop is at
    stdinReads,    \* number of reads of standard input begun
    decoded,       \* indexes of the inputs decoded so far
    handlerCalls,  \* number of invocations of a registered handler
    handlerState,  \* "idle", "running", "returned", "threw"
    handlerInput,  \* what the handler received, one entry per input
    output,        \* the handler's result: per output binding, value present?
    outIdx,        \* index of the output key the forEach is at
    encodes,       \* indexes of the outputs encoded so far
    writes,        \* per output binding: "none", "pending", "done", "failed"
    unhandled,     \* a promise nobody awaits has rejected
    effects,       \* number of Effect objects constructed so far
    handlerEffect, \* the Effect the dispatched handler received
    direct,        \* the latest call of a returned function by user code
    sh,            \* a call of Effect.$: position, captured output, log
    dc,            \* a decoder: its codec and schema, one decode call
    rt,            \* an encode followed by a decode of its result
    cs,            \* the registry bite() compiles, and the commands it makes
    sc             \* a run of add or echo: its data and what reached the streams

vars == <<variant, isTerminal, tasks, regCount, lastReg, argv, pc, cur, inIdx,
          stdinReads, decoded, handlerCalls, handlerState, handlerInput,
          handlerEffect, output, outIdx, encodes, writes, unhandled, effects,
          direct, sh, dc, rt, cs, sc>>

\* The variables a dispatch works on (everything but the registry).
dispatchVars == <<argv, pc, cur, inIdx, stdinReads, decoded, handlerCalls,
                  handlerState, handlerInput, handlerEffect, output, outIdx,
                  encodes, writes, unhandled>>

regVars == <<tasks, regCount, lastReg, effects>>

\* The variables of the code that runs beside the dispatch.
auxVars == <<direct, sh, dc, rt, cs, sc>>

Registered(name) == name \in TaskNames /\ tasks[name] # NoTask

\* A faulty key search, to test the input order against: the last
\* "custom" key at or after position i, 0 when none.
RECURSIVE NextCustomFromEnd(_, _)
NextCustomFromEnd(inputs, i) ==
    IF i > Len(inputs) THEN 0
    ELSE IF NextCustomFromEnd(inputs, i + 1) # 0
    THEN NextCustomFromEnd(inputs, i + 1)
    ELSE IF inputs[i] = "custom" THEN i
    ELSE 0

\* The index of the first "custom" key at or after position i, 0 when none:
\* the for loop over Object.keys(task.inputs) with its "continue".
RECURSIVE NextCustom(_, _)
NextCustom(inputs, i) ==
    IF i > Len(inputs) THEN 0
    ELSE IF inputs[i] = "custom" THEN i
    ELSE NextCustom(inputs, i + 1)

CustomKeys(inputs) == {i \in 1..Len(inputs) : inputs[i] = "custom"}

Init ==
    /\ variant \in Variants
    /\ isTerminal \in BOOLEAN
    /\ tasks = [n \in TaskNames |-> NoTask]
    /\ regCount = 0
    /\ lastReg = [name |-> "", entry |-> NoTask]
    /\ argv = ""
    /\ pc = "Idle"
    /\ cur = NoTask
    /\ inIdx = 0
    /\ stdinReads = 0
    /\ decoded = {}
    /\ handlerCalls = 0
    /\ handlerState = "idle"
    /\ handlerInput = <<>>
    /\ output = <<>>
    /\ outIdx = 0
    /\ encodes = {}
    /\ writes = <<>>
    /\ unhandled = FALSE
    /\ effects = 0
    /\ handlerEffect = NoEffect
    /\ direct = NoCall
    /\ sh = ShIdle
    /\ dc = DcIdle
    /\ rt = RtIdle
    /\ cs = CsIdle
    /\ sc = ScIdle

\* ------------------------------------------------------------ registration
\* new Effect(`Task#${name}`): the n-th Effect constructed, tagged with the
\* task's name.
NewEffect(n, name) == [id |-> n, tag |-> name]

\* The entry task() stores: the closure func (a fresh one per call, named by
\* the call's ordinal), the Effect func closes over, and the shape given.
Entry(id, effect, shape) == [func |-> id, effect |-> effect, shape |-> shape]

\* A faulty store, to test the registry property against: the first
\* registration of a name is kept and a later one is dropped.
StoreTaskKeepsFirst(reg, name, entry) ==
    IF reg[name] = NoTask THEN [reg EXCEPT ![name] = entry] ELSE reg

\* this.tasks[name] = { func, ... }
StoreTask(reg, name, entry) == [reg EXCEPT ![name] = entry]

\* A faulty registration, to test the frame property against: it stores the
\* entry and also runs the handler once.
taskRunsHandler(name, shape) ==
    /\ pc = "Idle"
    /\ regCount < MaxRegs
    /\ regCount' = regCount + 1
    /\ effects' = effects + 1
    /\ LET entry == Entry(regCount + 1, NewEffect(effects + 1, name), shape)
       IN /\ tasks' = StoreTask(tasks, name, entry)
          /\ lastReg' = [name |-> name, entry |-> entry]
    /\ handlerCalls' = handlerCalls + 1
    /\ UNCHANGED <<auxVars, variant, isTerminal, argv, pc, cur, inIdx,
                   stdinReads, decoded, handlerState, handlerInput,
                   handlerEffect, output, outIdx, encodes, writes, unhandled>>

\* Lask.task(name, ..., handler): const effect = new Effect(...); const func =
\* (input) => handler(input, effect); this.tasks[name] = {...}; return func.
task(name, shape) ==
    /\ pc = "Idle"
    /\ regCount < MaxRegs
    /\ regCount' = regCount + 1
    /\ effects' = effects + 1
    /\ LET entry == Entry(regCount + 1, NewEffect(effects + 1, name), shape)
       IN /\ tasks' = StoreTask(tasks, name, entry)
          /\ lastReg' = [name |-> name, entry |-> entry]
    /\ UNCHANGED <<auxVars, variant, isTerminal, dispatchVars>>

\* What the handler of the task registered as name returns for an input.
ResultOf(name, input) == [by |-> name, of |-> input]

\* A faulty closure, to test the direct call against: it goes through the
\* dispatcher's input step and reads standard input before the handler runs.
callFuncReadsInput(name, input) ==
    /\ pc = "Idle"
    /\ Registered(name)
    /\ direct' = [func |-> tasks[name].func, effect |-> tasks[name].effect,
                  given |-> input, received |-> input, invoked |-> 1,
                  result |-> ResultOf(name, input),
                  returned |-> ResultOf(name, input)]
    /\ stdinReads' = stdinReads + 1
    /\ UNCHANGED <<variant, isTerminal, regVars, argv, pc, cur, inIdx,
                   decoded, handlerCalls, handlerState, handlerInput,
                   handlerEffect, output, outIdx, encodes, writes, unhandled,
                   sc, cs, rt, sh, dc>>

\* User code calls the function task() returned for name, outside any
\* dispatch: (input) => handler(input, effect) calls the handler once with
\* the input given and the closure's Effect, and hands back what the
\* handler returns.
callFunc(name, input) ==
    /\ pc = "Idle"
    /\ Registered(name)
    /\ LET effect == tasks[name].effect
           received == input
           result == ResultOf(name, received)
       IN direct' = [func |-> tasks[name].func, effect |-> effect,
                     given |-> input, received |-> received, invoked |-> 1,
                     result |-> result, returned |-> result]
    /\ UNCHANGED <<variant, isTerminal, regVars, dispatchVars, sc, cs, rt,
                   sh, dc>>

\* ---------------------------------------------------------------- dispatch
\* Lask.bite(): compile the commands and hand Deno.args to the parser.
bite(name) ==
    /\ pc = "Idle"
    /\ pc' = "ParsingArgs"
    /\ argv' = name
    /\ UNCHANGED <<auxVars, variant, isTerminal, regVars, cur, inIdx,
                   stdinReads, decoded, handlerCalls, handlerState,
                   handlerInput, handlerEffect, output, outIdx, encodes,
                   writes, unhandled>>

\* stdin.read() of the Console channel: readAll(Deno.stdin), begun whether or
\* not standard input is a terminal.  n is the number of reads begun so far.
read(n) == n + 1

\* A faulty closure, to test the Effect property against: it constructs an
\* Effect of its own at every call instead of using the registration's.
InvokeFreshEffect(entry, input) ==
    /\ pc' = "Invoking"
    /\ handlerCalls' = handlerCalls + 1
    /\ handlerState' = "running"
    /\ handlerInput' = input
    /\ handlerEffect' = NewEffect(entry.effect.id + 1, entry.effect.tag)

\* task.func(input): the closure stored at registration calls the handler
\* with the Effect it closed over.
Invoke(entry, input) ==
    /\ pc' = "Invoking"
    /\ handlerCalls' = handlerCalls + 1
    /\ handlerState' = "running"
    /\ handlerInput' = input
    /\ handlerEffect' = entry.effect

\* cmd.run(lask, Deno.args) of the cmd-ts generations: a name that is no
\* subcommand is reported by the parser and the run fails.
UnknownCommand ==
    /\ variant \in {"bindings", "signature"}
    /\ pc = "ParsingArgs"
    /\ ~Registered(argv)
    /\ pc' = "Failed"
    /\ UNCHANGED <<auxVars, variant, isTerminal, regVars, argv, cur, inIdx,
                   stdinReads, decoded, handlerCalls, handlerState,
                   handlerInput, handlerEffect, output, outIdx, encodes,
                   writes, unhandled>>

\* cmd.run: a positional the parser cannot read under its declared type
\* (cmd.number) fails the run before the handler is entered.
BadArgs ==
    /\ variant = "bindings"
    /\ pc = "ParsingArgs"
    /\ Registered(argv)
    /\ \E i \in 1..Len(tasks[argv].shape.inputs) :
           tasks[argv].shape.inputs[i] = "param"
    /\ pc' = "Failed"
    /\ UNCHANGED <<auxVars, variant, isTerminal, regVars, argv, cur, inIdx,
                   stdinReads, decoded, handlerCalls, handlerState,
                   handlerInput, handlerEffect, output, outIdx, encodes,
                   writes, unhandled>>

\* ------------------------------------------- the bindings generation
\* { ...args, ...inputs }: the command-line value of every param key and the
\* decoded value of every custom key read so far.
MergeInputs(inputs, done) ==
    [i \in 1..Len(inputs) |->
        IF i \in done THEN "decoded"
        ELSE IF inputs[i] = "param" THEN "arg" ELSE "undefined"]

\* A faulty input loop, to test the ordering properties against: it skips the
\* custom inputs and calls task.func at once.
InputLoopSkipsReads(entry, i, done) ==
    /\ Invoke(entry, MergeInputs(entry.shape.inputs, done))
    /\ UNCHANGED <<inIdx, stdinReads>>

\* The loop over the input keys, from key i on: begin the read of the next
\* custom input, or, when none is left, call task.func.
InputLoop(entry, i, done) ==
    LET k == NextCustom(entry.shape.inputs, i) IN
    IF k = 0
    THEN /\ Invoke(entry, MergeInputs(entry.shape.inputs, done))
         /\ UNCHANGED <<inIdx, stdinReads>>
    ELSE /\ pc' = "ReadingInput"
         /\ inIdx' = k
         /\ stdinReads' = stdinReads + 1
         /\ UNCHANGED <<handlerCalls, handlerState, handlerInput,
                        handlerEffect>>

\* The command handler is entered with the parsed args.
BindingsHandlerStart ==
    /\ variant = "bindings"
    /\ pc = "ParsingArgs"
    /\ Registered(argv)
    /\ cur' = tasks[argv]
    /\ InputLoop(tasks[argv], 1, {})
    /\ UNCHANGED <<auxVars, variant, isTerminal, regVars, argv, decoded,
                   output, outIdx, encodes, writes, unhandled>>

\* const raw = await reader.read()
BindingsReadDone ==
    /\ variant = "bindings"
    /\ pc = "ReadingInput"
    /\ pc' = "Decoding"
    /\ UNCHANGED <<auxVars, variant, isTerminal, regVars, argv, cur, inIdx,
                   stdinReads, decoded, handlerCalls, handlerState,
                   handlerInput, handlerEffect, output, outIdx, encodes,
                   writes, unhandled>>

\* inputs[key] = await decoder.decode(raw), then on to the next key.
BindingsDecodeDone ==
    /\ variant = "bindings"
    /\ pc = "Decoding"
    /\ decoded' = decoded \cup {inIdx}
    /\ InputLoop(cur, inIdx + 1, decoded \cup {inIdx})
    /\ UNCHANGED <<auxVars, variant, isTerminal, regVars, argv, cur, output,
                   outIdx, encodes, writes, unhandled>>

\* A faulty input loop, to test the no-retry property against: a read or a
\* decode that fails is followed by another read of the same input.
BindingsInputFailRetries ==
    /\ variant = "bindings"
    /\ pc \in {"ReadingInput", "Decoding"}
    /\ stdinReads < 4
    /\ pc' = "ReadingInput"
    /\ stdinReads' = stdinReads + 1
    /\ UNCHANGED <<auxVars, variant, isTerminal, regVars, argv, cur, inIdx,
                   decoded, handlerCalls, handlerState, handlerInput,
                   handlerEffect, output, outIdx, encodes, writes, unhandled>>

\* reader.read() rejects, or decoder.decode throws: the handler's promise
\* rejects.
BindingsInputFail ==
    /\ variant = "bindings"
    /\ pc \in {"ReadingInput", "Decoding"}
    /\ pc' = "Failed"
    /\ UNCHANGED <<auxVars, variant, isTerminal, regVars, argv, cur, inIdx,
                   stdinReads, decoded, handlerCalls, handlerState,
                   handlerInput, handlerEffect, output, outIdx, encodes,
                   writes, unhandled>>

\* Object.keys(task.outputs).forEach(...), from key k on: the callback of the
\* next key is entered, or, past the last key, the handler returns.
ForEachFrom(entry, k) ==
    IF k <= entry.shape.outputs
    THEN pc' = "Encoding" /\ outIdx' = k
    ELSE pc' = "Done" /\ UNCHANGED outIdx

\* What the handler of the running task may resolve with: an object that
\* holds a value (TRUE) or none (FALSE) under each output key.
BindingsResults ==
    IF variant = "bindings" /\ pc = "Invoking"
    THEN [1..cur.shape.outputs -> BOOLEAN]
    ELSE {}

\* const output = await task.func(...): the handler's promise resolves with
\* result, which holds a value or none for each output key.
BindingsHandlerReturn(result) ==
    /\ variant = "bindings"
    /\ pc = "Invoking"
    /\ handlerState' = "returned"
    /\ output' = result
    /\ writes' = [k \in 1..cur.shape.outputs |-> "none"]
    /\ ForEachFrom(cur, 1)
    /\ UNCHANGED <<auxVars, variant, isTerminal, regVars, argv, cur, inIdx,
                   stdinReads, decoded, handlerCalls, handlerInput,
                   handlerEffect, encodes, unhandled>>

\* A faulty dispatcher, to test the single-invocation property against: a
\* handler that rejects is called again.
HandlerThrowRetries ==
    /\ pc = "Invoking"
    /\ handlerCalls < 3
    /\ handlerCalls' = handlerCalls + 1
    /\ UNCHANGED <<auxVars, variant, isTerminal, regVars, argv, pc, cur,
                   inIdx, stdinReads, decoded, handlerState, handlerInput,
                   handlerEffect, output, outIdx, encodes, writes, unhandled>>

\* The handler's promise rejects.
HandlerThrow ==
    /\ pc = "Invoking"
    /\ handlerState' = "threw"
    /\ pc' = "Failed"
    /\ UNCHANGED <<auxVars, variant, isTerminal, regVars, argv, cur, inIdx,
                   stdinReads, decoded, handlerCalls, handlerInput,
                   handlerEffect, output, outIdx, encodes, writes, unhandled>>

\* The forEach callback of key outIdx: const data = output[key];
\* const raw = encoder.encode(data); writer.write(raw) is called, whatever
\* data is, and the callback stops at its await.
BindingsEncode ==
    /\ variant = "bindings"
    /\ pc = "Encoding"
    /\ encodes' = encodes \cup {outIdx}
    /\ writes' = [writes EXCEPT ![outIdx] = "pending"]
    /\ pc' = "WritingOutput"
    /\ UNCHANGED <<auxVars, variant, isTerminal, regVars, argv, cur, inIdx,
                   stdinReads, decoded, handlerCalls, handlerState,
                   handlerInput, handlerEffect, output, outIdx, unhandled>>

\* encoder.encode throws inside the async callback: the callback's promise
\* rejects, nobody holds it, and forEach goes on with the next key.
BindingsEncodeThrow ==
    /\ variant = "bindings"
    /\ pc = "Encoding"
    /\ unhandled' = TRUE
    /\ ForEachFrom(cur, outIdx + 1)
    /\ UNCHANGED <<auxVars, variant, isTerminal, regVars, argv, cur, inIdx,
                   stdinReads, decoded, handlerCalls, handlerState,
                   handlerInput, handlerEffect, output, encodes, writes>>

\* The callback has stopped at "await writer.write(raw)"; forEach does not
\* hold its promise and goes on with the next key at once.
BindingsForEachNext ==
    /\ variant = "bindings"
    /\ pc = "WritingOutput"
    /\ ForEachFrom(cur, outIdx + 1)
    /\ UNCHANGED <<auxVars, variant, isTerminal, regVars, argv, cur, inIdx,
                   stdinReads, decoded, handlerCalls, handlerState,
                   handlerInput, handlerEffect, output, encodes, writes,
                   unhandled>>

\* A write begun by the forEach completes: Deno.stdout.write / writeFile
\* resolves in a later turn of the event loop, after the handler's turn.
WriteComplete(k) ==
    /\ variant = "bindings"
    /\ pc = "Done"
    /\ k \in 1..Len(writes)
    /\ writes[k] = "pending"
    /\ writes' = [writes EXCEPT ![k] = "done"]
    /\ UNCHANGED <<auxVars, variant, isTerminal, regVars, argv, pc, cur,
                   inIdx, stdinReads, decoded, handlerCalls, handlerState,
                   handlerInput, handlerEffect, output, outIdx, encodes,
                   unhandled>>

\* A write begun by the forEach fails: the callback's promise rejects and
\* nobody holds it.
WriteFail(k) ==
    /\ variant = "bindings"
    /\ pc = "Done"
    /\ k \in 1..Len(writes)
    /\ writes[k] = "pending"
    /\ writes' = [writes EXCEPT ![k] = "failed"]
    /\ unhandled' = TRUE
    /\ UNCHANGED <<auxVars, variant, isTerminal, regVars, argv, pc, cur,
                   inIdx, stdinReads, decoded, handlerCalls, handlerState,
                   handlerInput, handlerEffect, output, outIdx, encodes>>

\* ------------------------------------------ the signature generation
\* The handler's result: undefined (FALSE) or a value (TRUE).
SignatureResults ==
    IF variant \in {"signature", "plain"} /\ pc = "Invoking"
    THEN [1..1 -> BOOLEAN]
    ELSE {}

\* const input = Deno.stdin.isTerminal() ? undefined : ...readAllSync(...):
\* on a terminal nothing is read, input and parsedInput are undefined and
\* task.func(undefined) is called; otherwise standard input is read in full,
\* whatever the task's signature declares.
SignatureHandlerStart ==
    /\ variant = "signature"
    /\ pc = "ParsingArgs"
    /\ Registered(argv)
    /\ cur' = tasks[argv]
    /\ IF isTerminal
       THEN /\ Invoke(tasks[argv], <<"undefined">>)
            /\ UNCHANGED stdinReads
       ELSE /\ pc' = "ReadingInput"
            /\ stdinReads' = stdinReads + 1
            /\ UNCHANGED <<handlerCalls, handlerState, handlerInput,
                           handlerEffect>>
    /\ UNCHANGED <<auxVars, variant, isTerminal, regVars, argv, inIdx,
                   decoded, output, outIdx, encodes, writes, unhandled>>

\* const parsedInput = ... task.signature.input?.decoder?.decode(input):
\* with a decoder the text is decoded, without one parsedInput is undefined
\* and task.func(undefined) is called.
SignatureReadDone ==
    /\ variant = "signature"
    /\ pc = "ReadingInput"
    /\ IF cur.shape.decoder
       THEN /\ pc' = "Decoding"
            /\ UNCHANGED <<handlerCalls, handlerState, handlerInput,
                           handlerEffect>>
       ELSE Invoke(cur, <<"undefined">>)
    /\ UNCHANGED <<auxVars, variant, isTerminal, regVars, argv, cur, inIdx,
                   stdinReads, decoded, output, outIdx, encodes, writes,
                   unhandled>>

\* decoder.decode(input) returns; const output = await task.func(parsedInput)
SignatureDecodeDone ==
    /\ variant = "signature"
    /\ pc = "Decoding"
    /\ decoded' = {1}
    /\ Invoke(cur, <<"decoded">>)
    /\ UNCHANGED <<auxVars, variant, isTerminal, regVars, argv, cur, inIdx,
                   stdinReads, output, outIdx, encodes, writes, unhandled>>

\* readAllSync or decoder.decode throws: the handler's promise rejects.
SignatureInputFail ==
    /\ variant = "signature"
    /\ pc \in {"ReadingInput", "Decoding"}
    /\ pc' = "Failed"
    /\ UNCHANGED <<auxVars, variant, isTerminal, regVars, argv, cur, inIdx,
                   stdinReads, decoded, handlerCalls, handlerState,
                   handlerInput, handlerEffect, output, outIdx, encodes,
                   writes, unhandled>>

\* The handler's promise resolves; if (output !== undefined) { ... }
SignatureHandlerReturn(result) ==
    /\ variant = "signature"
    /\ pc = "Invoking"
    /\ handlerState' = "returned"
    /\ output' = result
    /\ writes' = <<"none">>
    /\ IF result[1]
       THEN pc' = "Encoding" /\ outIdx' = 1
       ELSE pc' = "Done" /\ UNCHANGED outIdx
    /\ UNCHANGED <<auxVars, variant, isTerminal, regVars, argv, cur, inIdx,
                   stdinReads, decoded, handlerCalls, handlerInput,
                   handlerEffect, encodes, unhandled>>

\* const encodedOutput = task.signature.output?.encoder?.encode(output) ??
\* JSON.stringify(output)
SignatureEncode ==
    /\ variant = "signature"
    /\ pc = "Encoding"
    /\ encodes' = {1}
    /\ pc' = "WritingOutput"
    /\ UNCHANGED <<auxVars, variant, isTerminal, regVars, argv, cur, inIdx,
                   stdinReads, decoded, handlerCalls, handlerState,
                   handlerInput, handlerEffect, output, outIdx, writes,
                   unhandled>>

\* The encoder throws inside the awaited handler: its promise rejects.
SignatureEncodeThrow ==
    /\ variant = "signature"
    /\ pc = "Encoding"
    /\ pc' = "Failed"
    /\ UNCHANGED <<auxVars, variant, isTerminal, regVars, argv, cur, inIdx,
                   stdinReads, decoded, handlerCalls, handlerState,
                   handlerInput, handlerEffect, output, outIdx, encodes,
                   writes, unhandled>>

\* console.log(encodedOutput): synchronous, and the handler returns.
SignatureLog ==
    /\ variant = "signature"
    /\ pc = "WritingOutput"
    /\ writes' = <<"done">>
    /\ pc' = "Done"
    /\ UNCHANGED <<auxVars, variant, isTerminal, regVars, argv, cur, inIdx,
                   stdinReads, decoded, handlerCalls, handlerState,
                   handlerInput, handlerEffect, output, outIdx, encodes,
                   unhandled>>

\* ---------------------------------------------- the plain generation
\* const task = this.tasks[taskName]; if (task) { ... } else
\* { this.logger.error(`Task not found: ...`) }: with a task, its input is
\* parsed when there is one and the task is called; without one the error is
\* logged and bite() returns normally.
PlainLookup ==
    IF Registered(argv)
    THEN /\ cur' = tasks[argv]
         /\ IF isTerminal
            THEN Invoke(tasks[argv], <<"undefined">>)
            ELSE /\ pc' = "Decoding"
                 /\ UNCHANGED <<handlerCalls, handlerState, handlerInput,
                                handlerEffect>>
    ELSE /\ pc' = "Done"
         /\ UNCHANGED <<cur, handlerCalls, handlerState, handlerInput,
                        handlerEffect>>

\* const taskName = Deno.args[0]; const input = Deno.stdin.isTerminal() ?
\* undefined : ...readAllSync(Deno.stdin): read before the task is looked up.
PlainStart ==
    /\ variant = "plain"
    /\ pc = "ParsingArgs"
    /\ IF isTerminal
       THEN PlainLookup /\ UNCHANGED stdinReads
       ELSE /\ pc' = "ReadingInput"
            /\ stdinReads' = stdinReads + 1
            /\ UNCHANGED <<cur, handlerCalls, handlerState, handlerInput,
                           handlerEffect>>
    /\ UNCHANGED <<auxVars, variant, isTerminal, regVars, argv, inIdx,
                   decoded, output, outIdx, encodes, writes, unhandled>>

\* readAllSync has returned the whole of standard input.
PlainReadDone ==
    /\ variant = "plain"
    /\ pc = "ReadingInput"
    /\ PlainLookup
    /\ UNCHANGED <<auxVars, variant, isTerminal, regVars, argv, inIdx,
                   stdinReads, decoded, output, outIdx, encodes, writes,
                   unhandled>>

\* const parsedInput = ... JSON.parse(input); const output = await
\* task(parsedInput)
PlainParseDone ==
    /\ variant = "plain"
    /\ pc = "Decoding"
    /\ decoded' = {1}
    /\ Invoke(cur, <<"decoded">>)
    /\ UNCHANGED <<auxVars, variant, isTerminal, regVars, argv, cur, inIdx,
                   stdinReads, output, outIdx, encodes, writes, unhandled>>

\* readAllSync or JSON.parse throws: the promise of bite() rejects.
PlainInputFail ==
    /\ variant = "plain"
    /\ pc \in {"ReadingInput", "Decoding"}
    /\ pc' = "Failed"
    /\ UNCHANGED <<auxVars, variant, isTerminal, regVars, argv, cur, inIdx,
                   stdinReads, decoded, handlerCalls, handlerState,
                   handlerInput, handlerEffect, output, outIdx, encodes,
                   writes, unhandled>>

\* The task's promise resolves; if (output !== undefined) ...
PlainHandlerReturn(result) ==
    /\ variant = "plain"
    /\ pc = "Invoking"
    /\ handlerState' = "returned"
    /\ output' = result
    /\ writes' = <<"none">>
    /\ IF result[1]
       THEN pc' = "Encoding" /\ outIdx' = 1
       ELSE pc' = "Done" /\ UNCHANGED outIdx
    /\ UNCHANGED <<auxVars, variant, isTerminal, regVars, argv, cur, inIdx,
                   stdinReads, decoded, handlerCalls, handlerInput,
                   handlerEffect, encodes, unhandled>>

\* console.log(JSON.stringify(output)): the text is made ...
PlainStringify ==
    /\ variant = "plain"
    /\ pc = "Encoding"
    /\ encodes' = {1}
    /\ pc' = "WritingOutput"
    /\ UNCHANGED <<auxVars, variant, isTerminal, regVars, argv, cur, inIdx,
                   stdinReads, decoded, handlerCalls, handlerState,
                   handlerInput, handlerEffect, output, outIdx, writes,
                   unhandled>>

\* ... and printed, and bite() returns.
PlainLog ==
    /\ variant = "plain"
    /\ pc = "WritingOutput"
    /\ writes' = <<"done">>
    /\ pc' = "Done"
    /\ UNCHANGED <<auxVars, variant, isTerminal, regVars, argv, cur, inIdx,
                   stdinReads, decoded, handlerCalls, handlerState,
                   handlerInput, handlerEffect, output, outIdx, encodes,
                   unhandled>>

Next ==
    \/ \E n \in TaskNames : \E s \in TaskShapes(variant) : task(n, s)
    \/ \E n \in ArgNames : bite(n)
    \/ UnknownCommand
    \/ BadArgs
    \/ BindingsHandlerStart
    \/ BindingsReadDone
    \/ BindingsDecodeDone
    \/ BindingsInputFail
    \/ \E r \in BindingsResults : BindingsHandlerReturn(r)
    \/ HandlerThrow
    \/ BindingsEncode
    \/ BindingsEncodeThrow
    \/ BindingsForEachNext
    \/ \E k \in 1..MaxOutputs : WriteComplete(k)
    \/ \E k \in 1..MaxOutputs : WriteFail(k)
    \/ SignatureHandlerStart
    \/ SignatureReadDone
    \/ SignatureDecodeDone
    \/ SignatureInputFail
    \/ \E r \in SignatureResults : SignatureHandlerReturn(r)
    \/ SignatureEncode
    \/ SignatureEncodeThrow
    \/ SignatureLog
    \/ PlainStart
    \/ PlainReadDone
    \/ PlainParseDone
    \/ PlainInputFail
    \/ \E r \in SignatureResults : PlainHandlerReturn(r)
    \/ PlainStringify
    \/ PlainLog

Spec == Init /\ [][Next]_vars

\* The program whose script also calls the functions task() returned.
NextFunc ==
    \/ Next
    \/ \E n \in TaskNames : callFunc(n, "x")

SpecFunc == Init /\ [][NextFunc]_vars

\* The script registers tasks and calls the functions task() returned with
\* inputs of its own; bite() is not called.
NextCall ==
    \/ \E n \in TaskNames : \E s \in TaskShapes(variant) : task(n, s)
    \/ \E n \in TaskNames : \E input \in CallInputs : callFunc(n, input)

SpecCall == Init /\ [][NextCall]_vars

\* ------------------------------------------------------------- Effect.$
\* text.split("\n"): the pieces between the newlines, the empty ones too.
RECURSIVE Split(_)
Split(text) ==
    LET nl == {i \in 1..Len(text) : text[i] = "\n"} IN
    IF nl = {} THEN <<text>>
    ELSE LET i == CHOOSE j \in nl : \A k \in nl : j <= k
         IN <<SubSeq(text, 1, i - 1)>> \o Split(SubSeq(text, i + 1, Len(text)))

\* line.trim(): the line without its leading and trailing whitespace.
Trim(line) ==
    LET ink == {i \in 1..Len(line) : line[i] \notin Whitespace} IN
    IF ink = {} THEN <<>>
    ELSE SubSeq(line, CHOOSE i \in ink : \A k \in ink : i <= k,
                      CHOOSE j \in ink : \A k \in ink : k <= j)

\* this.debug(line) / this.error(message): one entry of the logger.
LogEntry(level, message) == [level |-> level, msg |-> message]

\* A faulty logging loop, to test the logging property against: it logs
\* every piece, the blank ones too.
RECURSIVE DebugAll(_)
DebugAll(pieces) ==
    IF pieces = <<>> THEN <<>>
    ELSE <<LogEntry("debug", Head(pieces))>> \o DebugAll(Tail(pieces))

\* pieces.forEach((line) => { if (line.trim()) this.debug(line) })
RECURSIVE DebugLines(_)
DebugLines(pieces) ==
    IF pieces = <<>> THEN <<>>
    ELSE (IF Trim(Head(pieces)) # <<>>
          THEN <<LogEntry("debug", Head(pieces))>>
          ELSE <<>>) \o DebugLines(Tail(pieces))

\* `Command failed with exit code ${output.code}: ${stderr}`
FailureMessage(code, stderr) ==
    <<"Command failed with exit code ", code, ": ">> \o stderr

\* A faulty $, to test the failure property against: it logs the failure
\* and goes on to log and return the standard output.
DollarIgnoresStatus(code, stdout, stderr) ==
    [pc |-> "returned", code |-> code, stdout |-> stdout, stderr |-> stderr,
     log |-> (IF code # 0
              THEN <<LogEntry("error", FailureMessage(code, stderr))>>
              ELSE <<>>) \o DebugLines(Split(stdout)),
     result |-> stdout, thrown |-> NoError]

\* Effect.$ from the point where child.output() has resolved with the exit
\* status and the captured streams: what is logged, returned and thrown.
Dollar(code, stdout, stderr) ==
    IF code # 0
    THEN [pc |-> "threw", code |-> code, stdout |-> stdout,
          stderr |-> stderr,
          log |-> <<LogEntry("error", FailureMessage(code, stderr))>>,
          result |-> NoText,
          thrown |-> [name |-> "Error", message |-> stderr]]
    ELSE [pc |-> "returned", code |-> code, stdout |-> stdout,
          stderr |-> stderr,
          log |-> DebugLines(Split(stdout)),
          result |-> stdout,
          thrown |-> NoError]

\* effect.$(script): command.spawn(), then the call stops at
\* "await child.output()".
DollarSpawn ==
    /\ sh.pc = "idle"
    /\ sh' = [sh EXCEPT !.pc = "running"]
    /\ UNCHANGED <<variant, isTerminal, regVars, dispatchVars, sc, cs, rt,
                   direct, dc>>

\* The command exits: child.output() resolves and the rest of $ runs.
DollarOutput(code, stdout, stderr) ==
    /\ sh.pc = "running"
    /\ sh' = Dollar(code, stdout, stderr)
    /\ UNCHANGED <<variant, isTerminal, regVars, dispatchVars, sc, cs, rt,
                   direct, dc>>

\* A handler's call of effect.$, on its own.
NextShell ==
    \/ DollarSpawn
    \/ \E code \in ExitCodes : \E out \in Texts : \E err \in Stderrs :
           DollarOutput(code, out, err)

SpecShell == Init /\ [][NextShell]_vars

\* -------------------------------------------------------------- the codecs
\* typeof data
TypeOf(data) ==
    IF data.t \in {"null", "date", "array", "object"} THEN "object"
    ELSE data.t

\* ${index} inside a template string.
IndexName(i) == <<"0", "1", "2", "3">>[i + 1]

\* (data as Record<string, unknown>)[key]: the field of a record, and
\* undefined for a key the value does not hold (an array or a Date holds
\* none of the keys).
Get(data, key) ==
    IF data.t = "object" /\ key \in DOMAIN data.fields
    THEN data.fields[key]
    ELSE Undef

\* validateAgainstSchema returns normally.
Pass == [ok |-> TRUE, steps |-> <<>>, expected |-> "", actual |-> ""]

\* throw new Error("Expected " + expected + ", got " + typeof data)
Fail(expected, data) ==
    [ok |-> FALSE, steps |-> <<>>, expected |-> expected,
     actual |-> TypeOf(data)]

\* new Error(`Array item ${index}: ${error.message}`): the message of the
\* inner error with the item's index put in front.
ArrayItem(index, r) ==
    [r EXCEPT !.steps = <<[kind |-> "index", name |-> IndexName(index)]>> \o @]

\* YAMLDecoder.validateAgainstSchema(data, schema), with the forEach over
\* the items from item i on and the forEach over the properties from
\* property j on; the first throw ends the walk.
RECURSIVE validateAgainstSchema(_, _), ValidateItems(_, _, _),
          ValidateProps(_, _, _)
validateAgainstSchema(data, schema) ==
    CASE schema.type = "void" ->
            IF data # Undef THEN Fail("void", data) ELSE Pass
      [] schema.type = "null" ->
            IF data # Null THEN Fail("null", data) ELSE Pass
      [] schema.type \in {"boolean", "number", "string"} ->
            IF TypeOf(data) # schema.type THEN Fail(schema.type, data)
            ELSE Pass
      [] schema.type = "date" ->
            IF data.t # "date" THEN Fail("Date", data) ELSE Pass
      [] schema.type = "array" ->
            IF data.t # "array" THEN Fail("array", data)
            ELSE ValidateItems(data.items, schema.elements, 1)
      [] schema.type = "object" ->
            IF TypeOf(data) # "object" \/ data = Null
            THEN Fail("object", data)
            ELSE ValidateProps(data, schema.properties, 1)

ValidateItems(items, elements, i) ==
    IF i > Len(items) THEN Pass
    ELSE LET r == validateAgainstSchema(items[i], elements) IN
         IF ~r.ok THEN ArrayItem(i - 1, r)
         ELSE ValidateItems(items, elements, i + 1)

ValidateProps(data, properties, j) ==
    IF j > Len(properties) THEN Pass
    ELSE LET r == validateAgainstSchema(Get(data, properties[j].key),
                                        properties[j].schema) IN
         IF ~r.ok THEN r
         ELSE ValidateProps(data, properties, j + 1)

\* error.message of what the parser throws: the parser's own words, no path
\* and no kinds.
ParserMessage == [ok |-> FALSE, steps |-> <<>>, expected |-> "", actual |-> ""]

\* A decode call that returned value.
Returned(value) == [returned |-> value, thrown |-> NoError]

\* A decode call that threw error.
Threw(error) == [returned |-> Undef, thrown |-> error]

\* JSON.parse(data): the parsed value, or a SyntaxError.
JSONDecode(outcome) ==
    IF outcome = ParseFailure
    THEN Threw([name |-> "SyntaxError", prefix |-> "",
                detail |-> ParserMessage])
    ELSE Returned(outcome)

\* YAMLDecoder.decode(data) of a decoder constructed with schema (NoSchema:
\* with none): whatever the try block throws, the parser's error or the
\* validation's, is thrown again as new Error(`YAML parsing failed: ...`).
YAMLDecode(outcome, schema) ==
    IF outcome = ParseFailure
    THEN Threw([name |-> "Error", prefix |-> "YAML parsing failed: ",
                detail |-> ParserMessage])
    ELSE IF schema # NoSchema /\ ~validateAgainstSchema(outcome, schema).ok
    THEN Threw([name |-> "Error", prefix |-> "YAML parsing failed: ",
                detail |-> validateAgainstSchema(outcome, schema)])
    ELSE Returned(outcome)

\* json(schema) / JSONInput(schema): the schema is kept for the types; the
\* decoder gets none.
json(schema) ==
    /\ dc.pc = "idle"
    /\ dc' = [dc EXCEPT !.pc = "ready", !.codec = "json", !.schema = schema]
    /\ UNCHANGED <<variant, isTerminal, regVars, dispatchVars, sc, cs, rt,
                   direct, sh>>

\* YAMLInput(schema, options): new YAMLDecoder(options?.validate ? schema :
\* undefined).
YAMLInput(schema, validate) ==
    /\ dc.pc = "idle"
    /\ dc' = [dc EXCEPT !.pc = "ready",
                        !.codec = IF validate THEN "yamlValidate" ELSE "yaml",
                        !.schema = schema]
    /\ UNCHANGED <<variant, isTerminal, regVars, dispatchVars, sc, cs, rt,
                   direct, sh>>

\* decoder.decode(raw), for a raw text the parser treats as outcome says.
decode(outcome) ==
    /\ dc.pc = "ready"
    /\ dc.codec = "json" => outcome \in JSONOutcomes
    /\ LET r == CASE dc.codec = "json" -> JSONDecode(outcome)
                  [] dc.codec = "yaml" -> YAMLDecode(outcome, NoSchema)
                  [] dc.codec = "yamlValidate" ->
                        YAMLDecode(outcome, dc.schema)
       IN dc' = [dc EXCEPT !.pc = "done", !.parsed = outcome,
                           !.returned = r.returned, !.thrown = r.thrown]
    /\ UNCHANGED <<variant, isTerminal, regVars, dispatchVars, sc, cs, rt,
                   direct, sh>>

\* A codec is bound to a schema and decodes one text.
NextCodec ==
    \/ \E schema \in Schemas : json(schema)
    \/ \E schema \in Schemas : \E validate \in BOOLEAN :
           YAMLInput(schema, validate)
    \/ \E outcome \in ParseOutcomes : decode(outcome)

SpecCodec == Init /\ [][NextCodec]_vars

\* ------------------------------------------------- encoders and parsers
\* The keys of an object in insertion order, the ones holding undefined
\* left out as JSON.stringify leaves them out.
KeysOf(fields) ==
    SelectSeq(<<"k", "x">>,
              LAMBDA key : key \in DOMAIN fields /\ fields[key] # Undef)

\* The line break and the indentation JSON.stringify(data, null, 2) puts
\* before what is d deep.
Break(d) == <<"\n">> \o [i \in 1..d |-> "  "]

\* JSON.stringify(data, null, 2) of a value d deep, as tokens: NaN is
\* written null, an undefined array item too, a Date as its ISO string.
RECURSIVE Stringify(_, _), StringifyItems(_, _, _), StringifyMembers(_, _, _, _)
Stringify(v, d) ==
    CASE v.t \in {"null", "undefined"} -> <<"null">>
      [] v.t = "boolean" -> IF v.b THEN <<"true">> ELSE <<"false">>
      [] v.t = "number" ->
            IF "nan" \in DOMAIN v THEN <<"null">> ELSE <<NumToken(v.n)>>
      [] v.t = "string" -> <<"\"", v.s, "\"">>
      [] v.t = "date" -> <<"\"", "iso", "\"">>
      [] v.t = "array" ->
            IF v.items = <<>> THEN <<"[", "]">>
            ELSE <<"[">> \o StringifyItems(v.items, 1, d + 1)
                         \o Break(d) \o <<"]">>
      [] v.t = "object" ->
            IF KeysOf(v.fields) = <<>> THEN <<"{", "}">>
            ELSE <<"{">>
                 \o StringifyMembers(v.fields, KeysOf(v.fields), 1, d + 1)
                 \o Break(d) \o <<"}">>

StringifyItems(items, i, d) ==
    Break(d) \o Stringify(items[i], d)
    \o (IF i < Len(items) THEN <<",">> \o StringifyItems(items, i + 1, d)
        ELSE <<>>)

StringifyMembers(fields, ks, i, d) ==
    Break(d) \o <<"\"", ks[i], "\"", ":", " ">> \o Stringify(fields[ks[i]], d)
    \o (IF i < Len(ks)
        THEN <<",">> \o StringifyMembers(fields, ks, i + 1, d)
        ELSE <<>>)

\* JSONEncoder.encode(data): JSON.stringify(data, null, 2), which returns
\* undefined for undefined.
JSONEncode(v) ==
    IF v = Undef THEN UndefinedText ELSE TokenText(Stringify(v, 0))

\* The white space between the tokens of a JSON text.
Ws == {"\n", "  ", " "}

RECURSIVE Skip(_, _)
Skip(toks, i) ==
    IF i <= Len(toks) /\ toks[i] \in Ws THEN Skip(toks, i + 1) ELSE i

\* The parser's result at a position: a value and the position after it,
\* or no value.
Parsed(v, next) == [ok |-> TRUE, val |-> v, next |-> next]

NotParsed == [ok |-> FALSE, val |-> Undef, next |-> 0]

\* The JSON grammar, read from position i of the tokens.
RECURSIVE ParseValue(_, _), ParseItems(_, _, _), ParseMembers(_, _, _)
ParseValue(toks, from) ==
    LET i == Skip(toks, from) IN
    IF i > Len(toks) THEN NotParsed
    ELSE CASE toks[i] = "null" -> Parsed(Null, i + 1)
           [] toks[i] = "true" -> Parsed(Bool(TRUE), i + 1)
           [] toks[i] = "false" -> Parsed(Bool(FALSE), i + 1)
           [] IsNumToken(toks[i]) -> Parsed(Num(TokenNum(toks[i])), i + 1)
           [] toks[i] = "\"" ->
                 IF i + 2 <= Len(toks) /\ toks[i + 2] = "\""
                 THEN Parsed(Str(toks[i + 1]), i + 3) ELSE NotParsed
           [] toks[i] = "[" ->
                 LET j == Skip(toks, i + 1) IN
                 IF j <= Len(toks) /\ toks[j] = "]"
                 THEN Parsed(Arr(<<>>), j + 1)
                 ELSE ParseItems(toks, i + 1, <<>>)
           [] toks[i] = "{" ->
                 LET j == Skip(toks, i + 1) IN
                 IF j <= Len(toks) /\ toks[j] = "}"
                 THEN Parsed(Obj(<<>>), j + 1)
                 ELSE ParseMembers(toks, i + 1, <<>>)
           [] OTHER -> NotParsed

ParseItems(toks, from, acc) ==
    LET r == ParseValue(toks, from)
        j == Skip(toks, r.next)
    IN IF ~r.ok \/ j > Len(toks) THEN NotParsed
       ELSE IF toks[j] = "," THEN ParseItems(toks, j + 1, Append(acc, r.val))
       ELSE IF toks[j] = "]" THEN Parsed(Arr(Append(acc, r.val)), j + 1)
       ELSE NotParsed

ParseMembers(toks, from, acc) ==
    LET i == Skip(toks, from)
        c == Skip(toks, i + 3)
        r == ParseValue(toks, c + 1)
        j == Skip(toks, r.next)
        held == [key \in DOMAIN acc \cup {toks[i + 1]} |->
                    IF key = toks[i + 1] THEN r.val ELSE acc[key]]
    IN IF i + 2 > Len(toks) \/ toks[i] # "\"" \/ toks[i + 2] # "\""
       THEN NotParsed
       ELSE IF c > Len(toks) \/ toks[c] # ":" THEN NotParsed
       ELSE IF ~r.ok \/ j > Len(toks) THEN NotParsed
       ELSE IF toks[j] = "," THEN ParseMembers(toks, j + 1, held)
       ELSE IF toks[j] = "}" THEN Parsed(Obj(held), j + 1)
       ELSE NotParsed

\* What JSON.parse makes of a text: undefined is read as the text
\* "undefined", which is no JSON; tokens left after the value are an error.
JSONParse(text) ==
    IF text.kind # "tokens" THEN ParseFailure
    ELSE LET r == ParseValue(text.toks, 1) IN
         IF r.ok /\ Skip(text.toks, r.next) > Len(text.toks) THEN r.val
         ELSE ParseFailure

\* yamlStringify(data, {indent: 2, arrayIndent: true, skipInvalid: false,
\* flowLevel: -1}) writes block style: a line is an indentation and tokens.
Line(indent, toks) == [indent |-> indent, toks |-> toks]

\* The plain texts YAML reads as something other than a string.
Reserved == {"null", "true", "false", ".nan", "iso", "[]", "{}", "-", ":"}

\* A value written on one line: a scalar, [] or {}.
InLine(v) ==
    \/ v.t \notin {"array", "object"}
    \/ v.t = "array" /\ v.items = <<>>
    \/ v.t = "object" /\ KeysOf(v.fields) = <<>>

\* The tokens of a value written on one line: a string that would read as
\* another kind is quoted.
DumpScalar(v) ==
    CASE v.t = "null" -> <<"null">>
      [] v.t = "boolean" -> IF v.b THEN <<"true">> ELSE <<"false">>
      [] v.t = "number" ->
            IF "nan" \in DOMAIN v THEN <<".nan">> ELSE <<NumToken(v.n)>>
      [] v.t = "string" ->
            IF IsNumToken(v.s) \/ v.s \in Reserved THEN <<"'", v.s, "'">>
            ELSE <<v.s>>
      [] v.t = "date" -> <<"iso">>
      [] v.t = "array" -> <<"[]">>
      [] v.t = "object" -> <<"{}">>

\* The lines of a value: the items of an array after "- ", a nested block
\* starting on the line of its dash; the members of an object after
\* "key: ", a nested block on the lines below its key, two columns in.
RECURSIVE Dump(_, _), DumpItems(_, _, _), DumpMembers(_, _, _, _)
Dump(v, indent) ==
    IF InLine(v) THEN <<Line(indent, DumpScalar(v))>>
    ELSE IF v.t = "array" THEN DumpItems(v.items, 1, indent)
    ELSE DumpMembers(v.fields, KeysOf(v.fields), 1, indent)

DumpItems(items, i, indent) ==
    LET block == Dump(items[i], indent + 2)
        first == Line(indent, <<"-", " ">> \o block[1].toks)
    IN <<first>> \o Tail(block)
       \o (IF i < Len(items) THEN DumpItems(items, i + 1, indent) ELSE <<>>)

DumpMembers(fields, ks, i, indent) ==
    (IF InLine(fields[ks[i]])
     THEN <<Line(indent, <<ks[i], ":", " ">> \o DumpScalar(fields[ks[i]]))>>
     ELSE <<Line(indent, <<ks[i], ":">>)>> \o Dump(fields[ks[i]], indent + 2))
    \o (IF i < Len(ks) THEN DumpMembers(fields, ks, i + 1, indent) ELSE <<>>)

\* An encode call that returned text.
Encoded(text) == [text |-> text, thrown |-> NoError]

\* An encode call that threw error.
EncodeThrew(error) == [text |-> UndefinedText, thrown |-> error]

\* YAMLEncoder.encode(data): yamlStringify cannot write undefined with
\* skipInvalid false; what it throws is thrown again as
\* new Error(`YAML encoding failed: ...`).
YAMLEncode(v) ==
    IF v = Undef
    THEN EncodeThrew([name |-> "Error", prefix |-> "YAML encoding failed: ",
                      detail |-> ParserMessage])
    ELSE Encoded(LineText(Dump(v, 0)))

\* The value of the tokens of one line.
ScalarOf(toks) ==
    IF Len(toks) = 3 /\ toks[1] = "'" /\ toks[3] = "'"
    THEN Parsed(Str(toks[2]), 0)
    ELSE IF Len(toks) # 1 THEN NotParsed
    ELSE CASE toks[1] = "null" -> Parsed(Null, 0)
           [] toks[1] = "true" -> Parsed(Bool(TRUE), 0)
           [] toks[1] = "false" -> Parsed(Bool(FALSE), 0)
           [] toks[1] = ".nan" -> Parsed(NaN, 0)
           [] toks[1] = "iso" -> Parsed(DateValue, 0)
           [] toks[1] = "[]" -> Parsed(Arr(<<>>), 0)
           [] toks[1] = "{}" -> Parsed(Obj(<<>>), 0)
           [] IsNumToken(toks[1]) -> Parsed(Num(TokenNum(toks[1])), 0)
           [] toks[1] \in {"-", ":", "'"} -> NotParsed
           [] OTHER -> Parsed(Str(toks[1]), 0)

\* Line i opens an item of a sequence indented by indent.
IsItem(lines, i, indent) ==
    /\ i <= Len(lines)
    /\ lines[i].indent = indent
    /\ Len(lines[i].toks) >= 3
    /\ lines[i].toks[1] = "-" /\ lines[i].toks[2] = " "

\* Line i opens a member of a mapping indented by indent.
IsMember(lines, i, indent) ==
    /\ i <= Len(lines)
    /\ lines[i].indent = indent
    /\ Len(lines[i].toks) >= 2
    /\ lines[i].toks[2] = ":"

\* The block grammar, read from line i: what follows a dash is a node two
\* columns further in, on the same line.
RECURSIVE ParseNode(_, _), ParseSeq(_, _, _, _), ParseMap(_, _, _, _)
ParseNode(lines, i) ==
    IF i > Len(lines) THEN NotParsed
    ELSE IF IsItem(lines, i, lines[i].indent)
    THEN ParseSeq(lines, i, lines[i].indent, <<>>)
    ELSE IF IsMember(lines, i, lines[i].indent)
    THEN ParseMap(lines, i, lines[i].indent, <<>>)
    ELSE LET r == ScalarOf(lines[i].toks) IN
         IF r.ok THEN Parsed(r.val, i + 1) ELSE NotParsed

ParseSeq(lines, i, indent, acc) ==
    IF ~IsItem(lines, i, indent) THEN Parsed(Arr(acc), i)
    ELSE LET toks == lines[i].toks
             rest == Line(indent + 2, SubSeq(toks, 3, Len(toks)))
             r == ParseNode([lines EXCEPT ![i] = rest], i)
         IN IF r.ok THEN ParseSeq(lines, r.next, indent, Append(acc, r.val))
            ELSE NotParsed

ParseMap(lines, i, indent, acc) ==
    IF ~IsMember(lines, i, indent) THEN Parsed(Obj(acc), i)
    ELSE LET toks == lines[i].toks
             below == Len(toks) = 2
             r == IF below
                  THEN IF i < Len(lines) /\ lines[i + 1].indent > indent
                       THEN ParseNode(lines, i + 1)
                       ELSE Parsed(Null, i + 1)
                  ELSE IF toks[3] = " "
                  THEN LET s == ScalarOf(SubSeq(toks, 4, Len(toks))) IN
                       IF s.ok THEN Parsed(s.val, i + 1) ELSE NotParsed
                  ELSE NotParsed
             held == [key \in DOMAIN acc \cup {toks[1]} |->
                         IF key = toks[1] THEN r.val ELSE acc[key]]
         IN IF r.ok THEN ParseMap(lines, r.next, indent, held) ELSE NotParsed

\* What yamlParse makes of a text: lines left after the value are an
\* error.
YAMLParse(text) ==
    IF text.kind # "lines" THEN ParseFailure
    ELSE LET r == ParseNode(text.lines, 1) IN
         IF r.ok /\ r.next > Len(text.lines) THEN r.val ELSE ParseFailure

\* string(): decode and encode hand back what they are given.
StringDecode(text) == text.value

StringEncode(v) == ValueText(v)

\* encoder.encode(v) of a codec family: JSONEncoder / json(), YAMLEncoder,
\* string() whose encode is a cast (and whose schema is "string" only).
encode(family, v) ==
    /\ rt.pc = "idle"
    /\ family = "string" => v.t = "string"
    /\ LET r == CASE family = "json" -> Encoded(JSONEncode(v))
                  [] family = "yaml" -> YAMLEncode(v)
                  [] family = "string" -> Encoded(StringEncode(v))
       IN rt' = [rt EXCEPT !.pc = IF r.thrown = NoError THEN "encoded"
                                  ELSE "encodeFailed",
                           !.family = family, !.value = v,
                           !.text = r.text, !.thrown = r.thrown]
    /\ UNCHANGED <<variant, isTerminal, regVars, dispatchVars, sc, cs, direct,
                   sh, dc>>

\* decoder.decode(text) of the same family, on what encode returned:
\* JSON.parse, yamlParse (no schema given), string()'s cast.
decodeEncoded ==
    /\ rt.pc = "encoded"
    /\ LET r == CASE rt.family = "json" -> JSONDecode(JSONParse(rt.text))
                  [] rt.family = "yaml" ->
                        YAMLDecode(YAMLParse(rt.text), NoSchema)
                  [] rt.family = "string" -> Returned(StringDecode(rt.text))
       IN rt' = [rt EXCEPT !.pc = "decoded", !.returned = r.returned,
                           !.thrown = r.thrown]
    /\ UNCHANGED <<variant, isTerminal, regVars, dispatchVars, sc, cs, direct,
                   sh, dc>>

\* A value is encoded and the text decoded.
NextRound ==
    \/ \E family \in Families : \E v \in RoundValues : encode(family, v)
    \/ decodeEncoded

SpecRound == Init /\ [][NextRound]_vars

\* ------------------------------------------------ bite(): the commands
\* acc[key] = value
Put(acc, key, value) ==
    [k \in DOMAIN acc \cup {key} |-> IF k = key THEN value ELSE acc[k]]

\* cmd.positional({type, displayName, description}) and cmd.option({type,
\* long, short, description}) of cmd-ts.
Positional(type, displayName, description) ==
    [arg |-> "positional", type |-> type, displayName |-> displayName,
     description |-> description]

OptionArg(type, long, short, description) ==
    [arg |-> "option", type |-> type, long |-> long, short |-> short,
     description |-> description]

\* input.type === "string" ? cmd.string : cmd.number
CmdType(type) == IF type = "string" THEN "cmd.string" ELSE "cmd.number"

\* A faulty reducer, to test the command surface against: a channel-bound
\* input gets a positional too.
ArgStepKeepsCustom(gen, acc, key, input) ==
    Put(acc, key, Positional("cmd.string", NotGiven, NotGiven))

\* One step of the reduce over the keys of the inputs: what the entry under
\* key adds to the args.
ArgStep(gen, acc, key, input) ==
    CASE gen = "part_001" ->
            IF input.kind # "param" THEN acc
            ELSE Put(acc, key,
                     Positional(CmdType(input.type), NotGiven, NotGiven))
      [] gen = "part_003" ->
            IF input.kind = "param"
            THEN Put(acc, key,
                     Positional(CmdType(input.type), NotGiven,
                                input.description))
            ELSE IF input.kind = "option"
            THEN Put(acc, key,
                     OptionArg(CmdType(input.type), input.long, input.short,
                               input.description))
            ELSE acc
      [] gen = "part_004" ->
            Put(acc, key,
                Positional(IF input.type = "string" THEN "cmd.string"
                           ELSE IF input.type = "number" THEN "cmd.number"
                           ELSE "cmd.string",
                           key, input.description))

\* Object.keys(task.inputs).reduce(..., {}) from the i-th key on.
RECURSIVE Reduce(_, _, _, _)
Reduce(gen, inputs, i, acc) ==
    IF i > Len(inputs) THEN acc
    ELSE Reduce(gen, inputs, i + 1,
                ArgStep(gen, acc, KeyNames[i], inputs[i]))

\* The args of a task's command; Lask.ts passes args: {}.
Args(gen, inputs) ==
    IF gen = "Lask.ts" THEN <<>> ELSE Reduce(gen, inputs, 1, <<>>)

\* for (const taskName of Object.keys(this.tasks)) commands[taskName] =
\* cmd.command({name: taskName, args, handler}).
Commands(gen, reg) ==
    [name \in {n \in TaskNames : reg[n].declared} |->
        [name |-> name, args |-> Args(gen, reg[name].inputs)]]

\* lask.task(name, inputs, ...) of the source gen: this.tasks[name] = {...}.
\* A name is registered once here: registering it again replaces the entry
\* (StoreTask), which gives a registry that is also reached directly.
declareTask(gen, name, inputs) ==
    /\ cs.pc = "registering"
    /\ cs.gen \in {"", gen}
    /\ ~cs.tasks[name].declared
    /\ cs' = [cs EXCEPT !.gen = gen, !.tasks[name] = Declared(inputs)]
    /\ UNCHANGED <<variant, isTerminal, regVars, dispatchVars, sc, rt, direct,
                   sh, dc>>

\* bite() up to cmd.subcommands({name: "lask", cmds: commands}).
compileCommands ==
    /\ cs.pc = "registering"
    /\ cs.gen # ""
    /\ cs' = [cs EXCEPT !.pc = "compiled",
                        !.commands = Commands(cs.gen, cs.tasks)]
    /\ UNCHANGED <<variant, isTerminal, regVars, dispatchVars, sc, rt, direct,
                   sh, dc>>

\* Tasks are registered, then bite() compiles them.
NextSurface ==
    \/ \E gen \in Generations : \E name \in TaskNames :
           \E inputs \in EntryLists(gen) : declareTask(gen, name, inputs)
    \/ compileCommands

SpecSurface == Init /\ [][NextSurface]_vars

\* ------------------------------------------------ a run with its data
\* A faulty merge, to test the handler's record against: the keys of both,
\* but the values of b are lost.
SpreadLosesValues(a, b) ==
    [k \in DOMAIN a \cup DOMAIN b |-> IF k \in DOMAIN a THEN a[k] ELSE Undef]

\* { ...a, ...b }: the keys of both, b's value where both hold a key.
Spread(a, b) ==
    [k \in DOMAIN a \cup DOMAIN b |-> IF k \in DOMAIN b THEN b[k] ELSE a[k]]

\* cmd.number of cmd-ts: the number a word reads as, a failure for a word
\* that is no number.
IsNumberWord(word) == IsNumToken(word)

\* The args cmd.run makes of the words after the task's name: one key per
\* positional, holding the word at its position read under its type.
ParsedArgs(taskName, words) ==
    LET params == ParamsOf(RunInputs(taskName)) IN
    [k \in KeySet(params) |->
        IF EntryOf(params, k).type = "number"
        THEN Num(TokenNum(words[PositionOf(params, k)]))
        ELSE Str(words[PositionOf(params, k)])]

\* decoder.decode(raw) of a channel-bound input: json() parses, string()
\* casts.
DecodeInput(entry, raw) ==
    IF entry.type = "json" THEN JSONDecode(JSONParse(raw))
    ELSE Returned(StringDecode(raw))

\* The handlers: add returns the sum (under the key output in the bindings
\* sources), echo returns its input, create-file returns OK, ls returns {}
\* in the bindings sources and nothing under part_004.
Sum(a, b) == Num(a.n + b.n)

HandlerResult(gen, taskName, received) ==
    CASE taskName = "add" /\ gen = "bindings" ->
            [k \in {"output"} |-> Sum(received.a, received.b)]
      [] taskName = "add" /\ gen = "signature" ->
            Sum(received.param.a, received.param.b)
      [] taskName = "echo" /\ gen = "bindings" ->
            [k \in {"output"} |-> received.input]
      [] taskName = "create-file" ->
            [k \in {"output"} |-> Str("OK")]
      [] taskName = "echo" /\ gen = "signature" -> received.input
      [] taskName = "ls" /\ gen = "bindings" -> Empty
      [] taskName = "ls" /\ gen = "signature" -> Undef

\* The encoder of a task's output: string() for echo, json(...) for add and
\* create-file.
EncodeOutput(taskName, v) ==
    IF taskName = "echo" THEN StringEncode(v) ELSE JSONEncode(v)

\* console.log(`Inputs for task ${taskName}:`, {...args, ...inputs}) as it
\* reaches standard output.
InputsLog(taskName, inputs) ==
    [kind |-> "log", label |-> "Inputs for taskName", task |-> taskName,
     inputs |-> inputs]

\* console.log(text) as it reaches standard output: the text and a line
\* break.
ConsoleLog(text) == <<text, TokenText(<<"\n">>)>>

\* A faulty output step, to test the run against: the result is written
\* as it is, without its encoder.
EmitRaw(taskName, v) == ValueText(v)

\* The text the output step hands on: encoder.encode(data).
Emit(taskName, v) == EncodeOutput(taskName, v)

\* JSON.stringify(output): the tokens of the value with no line break,
\* indentation or blank between them.
JSONStringify(v) ==
    IF v = Undef THEN UndefinedText
    ELSE TokenText(SelectSeq(Stringify(v, 0), LAMBDA tok : tok \notin Ws))

\* A faulty output step, to test the printed text against: the encoder is
\* passed over.
SignatureTextSkipsEncoder(encoder, taskName, v) == JSONStringify(v)

\* task.signature.output?.encoder?.encode(output) ?? JSON.stringify(output)
SignatureText(encoder, taskName, v) ==
    IF encoder /\ Emit(taskName, v) # UndefinedText THEN Emit(taskName, v)
    ELSE JSONStringify(v)

\* cmd.run(lask, Deno.args) for `task words...`: the parser reads the
\* words under the types of the command's args, and fails the run for a
\* word that is no number.
run(gen, taskName, words, stdin, encoder) ==
    /\ sc.pc = "idle"
    /\ gen = "bindings" => encoder
    /\ (gen = "signature" /\ taskName = "ls") => ~encoder
    /\ (stdin = AtTerminal) <=> isTerminal
    /\ taskName = "create-file" => gen = "bindings"
    /\ taskName = "echo" => stdin.kind # "tokens"
    /\ Len(words) = Len(ParamsOf(RunInputs(taskName)))
    /\ LET params == ParamsOf(RunInputs(taskName))
           ok == \A i \in 1..Len(words) :
                     params[i].type = "number" => IsNumberWord(words[i])
       IN
       sc' = [sc EXCEPT !.pc = IF ok THEN "handler" ELSE "failed",
                        !.gen = gen, !.task = taskName,
                        !.encoder = encoder,
                        !.argv = <<taskName>> \o words, !.stdin = stdin,
                        !.args = IF ok THEN ParsedArgs(taskName, words)
                                 ELSE Empty]
    /\ UNCHANGED <<variant, isTerminal, regVars, dispatchVars, rt, cs,
                   direct, sh, dc>>

\* The bindings handler up to its console.log: each channel-bound input is
\* read from standard input (readAll ends when the pipe is closed; at a
\* terminal it waits for the user) and decoded, a decode that throws ends
\* the run; then the inputs are logged.
readInputs ==
    /\ sc.pc = "handler"
    /\ sc.gen = "bindings"
    /\ LET customs == CustomsOf(RunInputs(sc.task))
           outcome == [k \in KeySet(customs) |->
                          DecodeInput(EntryOf(customs, k), sc.stdin)]
           inputs == [k \in KeySet(customs) |-> outcome[k].returned]
       IN /\ customs # <<>> => sc.stdin # AtTerminal
          /\ IF \E k \in KeySet(customs) : outcome[k].thrown # NoError
             THEN sc' = [sc EXCEPT !.pc = "failed"]
             ELSE sc' = [sc EXCEPT !.pc = "ready", !.inputs = inputs,
                                   !.stdout =
                                       Append(@, InputsLog(sc.task,
                                                  Spread(sc.args, inputs)))]
    /\ UNCHANGED <<variant, isTerminal, regVars, dispatchVars, rt, cs,
                   direct, sh, dc>>

\* The signature handler up to parsedInput: standard input is read unless
\* it is a terminal, and decoded when the task has a decoder (echo has
\* string(), add and ls have none).
readStdin ==
    /\ sc.pc = "handler"
    /\ sc.gen = "signature"
    /\ LET parsed == IF sc.stdin = AtTerminal \/ sc.task # "echo" THEN Undef
                     ELSE StringDecode(sc.stdin)
       IN sc' = [sc EXCEPT !.pc = "ready",
                           !.inputs = [k \in {"input"} |-> parsed]]
    /\ UNCHANGED <<variant, isTerminal, regVars, dispatchVars, rt, cs,
                   direct, sh, dc>>

\* task.func({...args, ...inputs}) of the bindings sources and
\* task.func(args, parsedInput) of part_004: the handler logs through its
\* Effect (to standard error) and returns.
invokeHandler ==
    /\ sc.pc = "ready"
    /\ LET received == IF sc.gen = "bindings" THEN Spread(sc.args, sc.inputs)
                       ELSE [param |-> sc.args, input |-> sc.inputs.input]
       IN sc' = [sc EXCEPT !.pc = "returned", !.received = received,
                           !.result = HandlerResult(sc.gen, sc.task,
                                                    received),
                           !.stderr = Append(@, [kind |-> "log",
                                                 level |-> "info"])]
    /\ UNCHANGED <<variant, isTerminal, regVars, dispatchVars, rt, cs,
                   direct, sh, dc>>

\* The output step: the bindings sources encode output[key] for each
\* output key and hand the text to writer.write (Deno.stdout.write);
\* part_004 prints the encoded result with console.log when the result is
\* not undefined.
emit ==
    /\ sc.pc = "returned"
    /\ LET outs == RunOutputs(sc.task)
           raws == [i \in 1..Len(outs) |-> Emit(sc.task, sc.result[outs[i]])]
           text == SignatureText(sc.encoder, sc.task, sc.result)
       IN IF sc.gen = "bindings"
          THEN sc' = [sc EXCEPT !.pc = "done", !.emitted = @ \o raws,
                                !.stdout = @ \o raws]
          ELSE IF sc.result # Undef
          THEN sc' = [sc EXCEPT !.pc = "done", !.emitted = Append(@, text),
                                !.stdout = @ \o ConsoleLog(text)]
          ELSE sc' = [sc EXCEPT !.pc = "done"]
    /\ UNCHANGED <<variant, isTerminal, regVars, dispatchVars, rt, cs,
                   direct, sh, dc>>

\* One run of a task from the command line to the streams.
NextRun ==
    \/ \E gen \in {"bindings", "signature"} : \E taskName \in RunTasks :
         \E words \in UNION {[1..n -> OperandTokens] : n \in 0..2} :
           \E stdin \in PipedTexts \cup {AtTerminal} :
             \E encoder \in BOOLEAN :
               run(gen, taskName, words, stdin, encoder)
    \/ readInputs
    \/ readStdin
    \/ invokeHandler
    \/ emit

SpecRun == Init /\ [][NextRun]_vars

\* --------------------------------------- a handler that awaits a command
\* const output = await child.output(): the handler that called effect.$
\* goes on only when the command has exited; nothing in Effect.$ or in the
\* dispatcher ends the wait.
AwaitsOutputTimesOut == FALSE

AwaitsOutput == sh.pc = "running"

\* The dispatcher with handlers that may call effect.$ once: the call is
\* made while the handler runs, the handler's promise settles only after
\* the call has, and the command exits when it does, if ever.  The script
\* registers each name once.
NextAwait ==
    \/ /\ ~(pc = "Invoking" /\ AwaitsOutput)
       /\ Next
       /\ regCount' # regCount => ~Registered(lastReg'.name)
    \/ pc = "Invoking" /\ DollarSpawn
    \/ \E code \in {0, 1} : DollarOutput(code, <<"a", "\n">>, <<"b">>)

SpecAwait == Init /\ [][NextAwait]_vars

\* Every read, handler call, command and write that was begun ends, and a
\* turn of the event loop that can run does run.
SpecAwaitFair == SpecAwait /\ WF_vars(pc # "Idle" /\ NextAwait)

\* ================================================================ properties
Started(k) == k \in 1..Len(writes) /\ writes[k] # "none"

Pending(k) == k \in 1..Len(writes) /\ writes[k] = "pending"

\* C1: within one dispatch the writes of the output bindings begin in
\* declaration order, and the write of a later binding is not begun while the
\* write of an earlier binding is still pending.
C1_WritesSequenced ==
    \A k \in 1..MaxOutputs : \A j \in 1..MaxOutputs :
        (k < j /\ Started(j)) => ~Pending(k)

\* C2: the dispatch is Done (the command handler's promise has resolved) only
\* when no write begun by it is still pending.
C2_DoneAfterWrites ==
    pc = "Done" => \A k \in 1..MaxOutputs : ~Pending(k)

\* The inputs the dispatcher reads for the running task are all decoded: every
\* custom key of the bindings generation; the one input of the signature
\* generation when standard input is no terminal and a decoder is declared;
\* the piped input of the plain generation.
InputsReady ==
    CASE variant = "bindings" -> decoded = CustomKeys(cur.shape.inputs)
      [] variant = "signature" ->
            (~isTerminal /\ cur.shape.decoder) => decoded = {1}
      [] OTHER -> ~isTerminal => decoded = {1}

OutputBegun ==
    \/ pc \in {"Encoding", "WritingOutput"}
    \/ encodes # {}
    \/ \E k \in 1..MaxOutputs : Started(k)

\* C3: within one dispatch the inputs are read and decoded before the handler
\* is invoked (once it has been invoked, all of them are decoded and no read
\* or decode follows), and no output is encoded or written before the
\* handler's result has been produced.
C3_InputThenHandlerThenOutput ==
    /\ [](handlerCalls > 0 => InputsReady)
    /\ [][handlerCalls > 0 =>
             (stdinReads' = stdinReads /\ decoded' = decoded)]_vars
    /\ [](OutputBegun => handlerState = "returned")

\* Two custom inputs were read and decoded, the handler has returned and an
\* output has been encoded.
C3_Witness ==
    /\ variant = "bindings"
    /\ decoded = {1, 2}
    /\ handlerState = "returned"
    /\ encodes # {}

\* Whether a registered entry declares an input binding: a custom key, a
\* decoder in its signature; a plain task is a function of its input.
DeclaresInput(entry) ==
    CASE variant = "bindings" -> CustomKeys(entry.shape.inputs) # {}
      [] variant = "signature" -> entry.shape.decoder
      [] OTHER -> TRUE

\* C4: when the running task declares an input binding and standard input is
\* an interactive terminal, no read is begun and the handler receives no
\* decoded input.
C4_InteractiveInputSkipped ==
    (isTerminal /\ cur # NoTask /\ DeclaresInput(cur)) =>
        /\ stdinReads = 0
        /\ \A i \in 1..Len(handlerInput) : handlerInput[i] # "decoded"

\* C5: standard input is read during the dispatch of a task only if it is no
\* interactive terminal and the task declares an input binding (stated of the
\* signature generation, whose command handler reads standard input itself).
C5_StdinReadOnlyWhenDeclared ==
    (variant = "signature" /\ stdinReads > 0 /\ cur # NoTask) =>
        (~isTerminal /\ DeclaresInput(cur))

\* C6: the dispatch of a name that is not in the registry ends in failure,
\* with no handler invoked and nothing written.
C6_UnknownTaskFails ==
    (pc \in {"Done", "Failed"} /\ ~Registered(argv)) =>
        /\ pc = "Failed"
        /\ handlerCalls = 0
        /\ \A k \in 1..MaxOutputs : ~Started(k)

\* C7: each registration stores its own entry under its name and leaves the
\* entry of every other name as it was, so that the entry under a name is the
\* one of the last registration made with that name; and it is the entry the
\* dispatcher runs for that name.
C7_LastRegistrationWins ==
    /\ [][regCount' # regCount =>
            /\ lastReg'.entry.func = regCount'
            /\ tasks'[lastReg'.name] = lastReg'.entry
            /\ \A m \in TaskNames \ {lastReg'.name} : (tasks'[m] = tasks[m])]_vars
    /\ [](cur # NoTask => cur = tasks[argv])

\* The name foo was registered twice, and the dispatch of foo has run the
\* second registration's function.
C7_Witness ==
    /\ regCount = 2
    /\ tasks["bar"] = NoTask
    /\ tasks["foo"].func = 2
    /\ cur = tasks["foo"]
    /\ handlerCalls = 1

\* C8: a registration does no task work: it invokes no handler, reads no
\* Reader, decodes and encodes nothing, writes nothing and does not move the
\* dispatch.
C8_RegistrationDoesNoWork ==
    [][regCount' # regCount =>
          UNCHANGED <<pc, handlerCalls, handlerState, handlerInput,
                      handlerEffect, stdinReads, decoded, encodes, writes,
                      output, unhandled>>]_vars

\* Registrations have been made and no task work has been done.
C8_Witness ==
    /\ regCount > 0
    /\ \E n \in TaskNames : tasks[n] # NoTask
    /\ pc = "Idle"
    /\ handlerCalls = 0
    /\ stdinReads = 0

\* States of one dispatch, in the order of the dispatcher's state machine.
Rank(s) ==
    CASE s = "Idle" -> 0
      [] s = "ParsingArgs" -> 1
      [] s = "ReadingInput" -> 2
      [] s = "Decoding" -> 3
      [] s = "Invoking" -> 4
      [] s = "Encoding" -> 5
      [] s = "WritingOutput" -> 6
      [] s = "Done" -> 7
      [] OTHER -> 8

\* The phases of one dispatch: reading and decoding are one phase, encoding
\* and writing are one phase.
Phase(s) ==
    CASE s = "Idle" -> 0
      [] s = "ParsingArgs" -> 1
      [] s \in {"ReadingInput", "Decoding"} -> 2
      [] s = "Invoking" -> 3
      [] s \in {"Encoding", "WritingOutput"} -> 4
      [] s = "Done" -> 5
      [] OTHER -> 6

Terminal == [][(pc \in {"Done", "Failed"}) => (pc' = pc)]_vars

\* C9 as stated: the dispatch moves forward through the states of the state
\* machine and never comes back to one, Done and Failed are terminal, and at
\* most one handler is invoked, at most once.
C9_NoStateRevisited ==
    /\ [][pc' # pc => Rank(pc') > Rank(pc)]_vars
    /\ Terminal
    /\ [](handlerCalls <= 1)

\* The position of the dispatch with the binding it is at.
Position == <<Phase(pc), inIdx, outIdx, Rank(pc)>>

\* Lexicographic order on positions.
Before(p, q) ==
    \E i \in 1..4 : p[i] < q[i] /\ \A j \in 1..(i - 1) : p[j] = q[j]

\* C9 as amended: the dispatch never returns to an earlier phase; inside the
\* input phase ReadingInput and Decoding are passed once per custom input and
\* inside the output phase Encoding and WritingOutput once per output binding,
\* in declaration order and never twice for the same binding; Done and Failed
\* are terminal, and at most one handler is invoked, at most once.
C9_ForwardPerBinding ==
    /\ [][Position' # Position => Before(Position, Position')]_vars
    /\ Terminal
    /\ [](handlerCalls <= 1)

\* A dispatch that read two custom inputs and encoded two outputs is Done,
\* after one invocation of the handler.
C9_Witness ==
    /\ variant = "bindings"
    /\ decoded = {1, 2}
    /\ encodes = {1, 2}
    /\ handlerCalls = 1
    /\ pc = "Done"

\* C10: an output binding for which the handler's result holds no value is
\* skipped: it is not encoded and its Writer is not called.
C10_AbsentOutputSkipped ==
    \A k \in 1..Len(output) : ~output[k] => (k \notin encodes /\ ~Started(k))
\* C11: one Effect is constructed per registration, at registration time and
\* tagged with the task's name; every invocation of the task, by a dispatch
\* or by a call of the function task() returned, hands the handler that same
\* Effect, and no invocation constructs an Effect.
C11_OneEffectPerRegistration ==
    /\ [](effects = regCount)
    /\ [](\A n \in TaskNames :
            Registered(n) =>
                tasks[n].effect = NewEffect(tasks[n].func, n))
    /\ [](handlerCalls > 0 => handlerEffect = tasks[argv].effect)
    /\ [](direct.func > 0 => direct.effect.id = direct.func)
    /\ [][direct' # direct =>
            \E n \in TaskNames :
                /\ Registered(n)
                /\ direct'.func = tasks[n].func
                /\ direct'.effect = tasks[n].effect]_vars
    /\ [][effects' # effects =>
            (effects' = effects + 1 /\ regCount' = regCount + 1)]_vars
    /\ [][(handlerCalls' # handlerCalls \/ direct' # direct) =>
            (effects' = effects)]_vars

\* A dispatch and a direct call of the same task have handed its handler the
\* one Effect of its registration, with another task registered as well.
C11_Witness ==
    /\ regCount = 2
    /\ handlerCalls = 1
    /\ direct.func = 2
    /\ handlerEffect = direct.effect
    /\ handlerEffect = NewEffect(2, argv)

\* The lines of a text: what stands between its newlines; a final newline
\* ends the last line and opens no further one.
Lines(text) ==
    LET pieces == Split(text) IN
    IF pieces[Len(pieces)] = <<>>
    THEN SubSeq(pieces, 1, Len(pieces) - 1)
    ELSE pieces

NonBlank(line) == \E i \in 1..Len(line) : line[i] \notin Whitespace

\* The log that holds one debug entry per given line, in order.
DebugLog(lines) ==
    [i \in 1..Len(lines) |-> [level |-> "debug", msg |-> lines[i]]]

\* Is text the end of message?
EndsWith(message, text) ==
    /\ Len(text) <= Len(message)
    /\ SubSeq(message, Len(message) - Len(text) + 1, Len(message)) = text

\* C12: when the command exits non-zero, the call logs the captured stderr
\* as one error-level entry and then fails with an error that carries the
\* captured stderr text and the exit code.
C12_FailureCarriesStatus ==
    sh.pc = "threw" =>
        /\ Len(sh.log) = 1
        /\ sh.log[1].level = "error"
        /\ EndsWith(sh.log[1].msg, sh.stderr)
        /\ sh.thrown.message = sh.stderr
        /\ "code" \in DOMAIN sh.thrown
        /\ sh.thrown.code = sh.code

C14_NoStdoutAfterFailure ==
    (sh.pc \in {"returned", "threw"} /\ sh.code # 0) =>
        /\ \A i \in 1..Len(sh.log) : \A j \in 1..Len(sh.log) :
               (sh.log[i].level = "error" /\ i < j) =>
                   sh.log[j].level # "debug"
        /\ sh.result = NoText

\* A command that wrote a line to its stdout has failed.
C14_Witness ==
    /\ sh.pc = "threw"
    /\ sh.code = 2
    /\ \E i \in 1..Len(sh.stdout) : sh.stdout[i] = "a"
    /\ sh.log # <<>>

\* The number of Readers the dispatch has called so far at most once each:
\* the channel-bound inputs up to the one the loop is at.
ReadersReached ==
    IF variant = "bindings" /\ cur # NoTask
    THEN Cardinality({i \in CustomKeys(cur.shape.inputs) : i <= inIdx})
    ELSE 1

C16_OutputFailurePropagates ==
    pc = "Done" =>
        /\ ~unhandled
        /\ \A k \in 1..Len(writes) : writes[k] # "failed"

\* Does value v conform to schema s?
RECURSIVE Conforms(_, _)
Conforms(v, s) ==
    CASE s.type = "void" -> v = Undef
      [] s.type = "null" -> v = Null
      [] s.type \in {"boolean", "number", "string", "date"} -> v.t = s.type
      [] s.type = "array" ->
            /\ v.t = "array"
            /\ \A i \in 1..Len(v.items) : Conforms(v.items[i], s.elements)
      [] s.type = "object" ->
            /\ v.t = "object"
            /\ \A j \in 1..Len(s.properties) :
                   Conforms(Get(v, s.properties[j].key),
                            s.properties[j].schema)

\* The first place, in tree order, where v does not conform to s: the steps
\* to it (every array index and every object key on the way), the kind the
\* schema expects there and the value found there.
RECURSIVE Offence(_, _)
Offence(v, s) ==
    IF s.type = "array" /\ v.t = "array"
    THEN LET bad == {i \in 1..Len(v.items) :
                        ~Conforms(v.items[i], s.elements)}
             i == CHOOSE b \in bad : \A c \in bad : b <= c
             o == Offence(v.items[i], s.elements)
         IN [o EXCEPT !.steps =
                <<[kind |-> "index", name |-> IndexName(i - 1)]>> \o @]
    ELSE IF s.type = "object" /\ v.t = "object"
    THEN LET bad == {j \in 1..Len(s.properties) :
                        ~Conforms(Get(v, s.properties[j].key),
                                  s.properties[j].schema)}
             j == CHOOSE b \in bad : \A c \in bad : b <= c
             o == Offence(Get(v, s.properties[j].key), s.properties[j].schema)
         IN [o EXCEPT !.steps =
                <<[kind |-> "key", name |-> s.properties[j].key]>> \o @]
    ELSE [steps |-> <<>>,
          expected |-> IF s.type = "date" THEN "Date" ELSE s.type,
          value |-> v]

\* No array and no Date stands where s expects an object.
RECURSIVE RecordWhereObject(_, _)
RecordWhereObject(v, s) ==
    CASE s.type = "object" ->
            /\ v.t \notin {"array", "date"}
            /\ v.t = "object" =>
                   \A j \in 1..Len(s.properties) :
                       RecordWhereObject(Get(v, s.properties[j].key),
                                         s.properties[j].schema)
      [] s.type = "array" ->
            v.t = "array" =>
                \A i \in 1..Len(v.items) :
                    RecordWhereObject(v.items[i], s.elements)
      [] OTHER -> TRUE

\* A validating decoder has decoded a text that parses.
Validated ==
    /\ dc.pc = "done"
    /\ dc.codec = "yamlValidate"
    /\ dc.parsed # ParseFailure

\* What a caller can tell the kind of an error by: its class and the fixed
\* head of its message.
ErrorKind(error) == <<error.name, error.prefix>>

\* C17: the validating decoder's two failure kinds differ: the error for a
\* text that parses but does not conform is not of the kind of the error
\* the same decoder gives for a text that does not parse.
C17_FailureKindsDistinct ==
    (Validated /\ dc.thrown # NoError) =>
        ErrorKind(dc.thrown) #
            ErrorKind(YAMLDecode(ParseFailure, dc.schema).thrown)

\* C18: validation accepts a value exactly when it conforms to the schema
\* (void, null, boolean, number, string, array and object; no Date here).
C18_AcceptsExactlyConforming ==
    (Validated /\ dc.parsed.t # "date") =>
        (dc.thrown = NoError <=> Conforms(dc.parsed, dc.schema))

\* C19: the error of a failed validation names the first offending path in
\* tree order, every array index and every object key on the way, and the
\* expected and the actual kind there.
C19_ErrorNamesOffendingPath ==
    (Validated /\ dc.thrown # NoError
               /\ RecordWhereObject(dc.parsed, dc.schema)) =>
        LET o == Offence(dc.parsed, dc.schema) IN
        /\ dc.thrown.detail.steps = o.steps
        /\ dc.thrown.detail.expected = o.expected
        /\ dc.thrown.detail.actual = TypeOf(o.value)

\* C20: a schema-bound codec that decodes a text which parses, but to a
\* value that does not conform to the schema, fails instead of returning
\* the parsed value.
C20_MismatchFailsDecode ==
    (dc.pc = "done" /\ dc.parsed # ParseFailure
                   /\ ~Conforms(dc.parsed, dc.schema)) =>
        dc.thrown # NoError

\* C21: a value that conforms to a schema comes back from decode(encode(v))
\* as itself, in each codec family: the encode succeeds, the decode
\* succeeds, and the value returned equals the one encoded.
C21_RoundTrip ==
    rt.pc \in {"encodeFailed", "decoded"} =>
        /\ rt.pc = "decoded"
        /\ rt.thrown = NoError
        /\ rt.returned = rt.value

\* The entries of an inputs list that are params or options (an entry of
\* signature.param is a param), and what an entry says of itself.
IsParam(e) == "kind" \notin DOMAIN e \/ e.kind = "param"

IsOption(e) == "kind" \in DOMAIN e /\ e.kind = "option"

DescriptionOf(e) ==
    IF "description" \in DOMAIN e THEN e.description ELSE NotGiven

CliKeys(inputs) ==
    {KeyNames[i] : i \in {j \in 1..Len(inputs) :
                             IsParam(inputs[j]) \/ IsOption(inputs[j])}}

\* C22: the compiled commands are one per registered task, under the task's
\* name and named after it; a command has one argument per param or option
\* entry and none for a channel-bound input; the argument of a param is a
\* positional, that of an option an option, of the entry's type (string or
\* number) and with the entry's description.
C22_CommandSurface ==
    cs.pc = "compiled" =>
        /\ DOMAIN cs.commands = {n \in TaskNames : cs.tasks[n].declared}
        /\ \A n \in DOMAIN cs.commands :
             LET inputs == cs.tasks[n].inputs
                 args == cs.commands[n].args
             IN /\ cs.commands[n].name = n
                /\ DOMAIN args = CliKeys(inputs)
                /\ \A i \in 1..Len(inputs) :
                     KeyNames[i] \in DOMAIN args =>
                       LET e == inputs[i]
                           a == args[KeyNames[i]]
                       IN /\ a.arg = IF IsParam(e) THEN "positional"
                                     ELSE "option"
                          /\ a.type = IF e.type = "string" THEN "cmd.string"
                                      ELSE "cmd.number"
                          /\ a.description = DescriptionOf(e)

\* Two tasks are compiled: one with a described param and a channel-bound
\* input, one with an option.
C22_Witness ==
    /\ cs.pc = "compiled"
    /\ cs.gen = "part_003"
    /\ cs.tasks["foo"] = Declared(<<Param("string", "d"), Custom>>)
    /\ cs.tasks["bar"].declared
    /\ \E i \in 1..Len(cs.tasks["bar"].inputs) :
           IsOption(cs.tasks["bar"].inputs[i])

\* C23: `add 2 3` calls the handler with a = 2 and b = 3, and the output
\* step hands on one text, the JSON encoding of 5; the same for the other
\* numbers typed.
C23_AddScenario ==
    (sc.task = "add" /\ sc.pc = "done") =>
        LET a == TokenNum(sc.argv[2])
            b == TokenNum(sc.argv[3])
            given == IF sc.gen = "bindings" THEN sc.received
                     ELSE sc.received.param
        IN /\ given = [k \in {"a", "b"} |-> IF k = "a" THEN Num(a) ELSE Num(b)]
           /\ sc.emitted = <<TokenText(<<NumToken(a + b)>>)>>

\* `add 2 3` has run to its end.
C23_Witness ==
    /\ sc.pc = "done"
    /\ sc.argv = <<"add", "2", "3">>
    /\ sc.gen = "bindings"
    /\ sc.received = [k \in {"a", "b"} |-> IF k = "a" THEN Num(2) ELSE Num(3)]
    /\ sc.emitted = <<TokenText(<<"5">>)>>

\* C24: echo, run with "hello" piped on standard input, puts the text
\* hello on standard output and nothing else.
C24_EchoScenario ==
    (sc.task = "echo" /\ sc.pc = "done"
        /\ sc.stdin = ValueText(Str("hello"))) =>
        sc.stdout = <<ValueText(Str("hello"))>>

\* C25: while the command a handler awaits has not exited the dispatch is
\* neither Done nor Failed, so it never ends when the command never exits;
\* and when every read, handler call, command and write ends, a dispatch
\* that was started reaches Done or Failed.
C25_EndsOnlyWithItsCommand ==
    /\ [](sh.pc = "running" => pc \notin {"Done", "Failed"})
    /\ (pc # "Idle") ~> (pc \in {"Done", "Failed"})

\* A handler awaited a command that exited, and the dispatch ended.
C25_Witness ==
    /\ pc = "Done"
    /\ sh.pc # "idle"
    /\ handlerState = "returned"

\* C26: a call of the function task() returned runs the registered handler
\* once, with the input given and the Effect made at registration, and
\* returns what the handler returned; the call reads no Channel, decodes
\* and encodes nothing, writes no Channel and leaves the registry alone.
C26_DirectCall ==
    /\ [](direct # NoCall =>
            /\ direct.invoked = 1
            /\ direct.received = direct.given
            /\ direct.returned = direct.result
            /\ direct.effect = NewEffect(direct.func, direct.effect.tag)
            /\ direct.result = ResultOf(direct.effect.tag, direct.given))
    /\ [][direct' # direct =>
            /\ \E n \in TaskNames :
                 Registered(n) /\ direct'.effect = tasks[n].effect
            /\ UNCHANGED <<regVars, stdinReads, decoded, encodes, writes,
                           handlerCalls, pc>>]_vars

\* A registered task's function has been called with an input.
C26_Witness ==
    /\ direct.invoked = 1
    /\ direct.given = "y"
    /\ direct.returned = ResultOf("foo", "y")
    /\ tasks["bar"] # NoTask

\* C27: the channel-bound inputs of a task are read and decoded one after
\* another in declaration order: while input k is read or decoded exactly
\* the channel-bound inputs declared before it have been decoded, a read
\* begins only when no other read or decode is under way, and the handler
\* is called only when all of them have been decoded.
C27_InputsOneByOne ==
    /\ []((variant = "bindings" /\ pc \in {"ReadingInput", "Decoding"}) =>
            /\ inIdx \in CustomKeys(cur.shape.inputs)
            /\ decoded = {i \in CustomKeys(cur.shape.inputs) : i < inIdx})
    /\ [][(variant = "bindings" /\ stdinReads' # stdinReads) =>
            /\ pc \notin {"ReadingInput"}
            /\ pc' = "ReadingInput"
            /\ stdinReads' = stdinReads + 1]_vars
    /\ []((variant = "bindings" /\ handlerCalls > 0) =>
            decoded = CustomKeys(cur.shape.inputs))

\* The second of two channel-bound inputs is being read, the first one
\* decoded.
C27_Witness ==
    /\ variant = "bindings"
    /\ pc = "ReadingInput"
    /\ cur.shape.inputs = <<"custom", "custom">>
    /\ inIdx = 2
    /\ decoded = {1}

\* C28: the handler of the bindings dispatcher gets one record with one
\* entry per declared input key: under a param key the value read from the
\* command line, under a channel-bound key the value decoded from its
\* Channel; the two sets of keys share no key.
C28_OneRecordPerCall ==
    (sc.gen = "bindings" /\ sc.pc \in {"returned", "done"}) =>
        LET inputs == RunInputs(sc.task)
            params == ParamsOf(inputs)
        IN /\ DOMAIN sc.received = KeySet(inputs)
           /\ DOMAIN sc.args \cap DOMAIN sc.inputs = {}
           /\ \A i \in 1..Len(params) :
                sc.received[params[i].key] =
                    IF params[i].type = "number"
                    THEN Num(TokenNum(sc.argv[i + 1]))
                    ELSE Str(sc.argv[i + 1])
           /\ \A k \in KeySet(CustomsOf(inputs)) :
                sc.received[k] = sc.inputs[k]

\* create-file was called with the file name typed and the content piped.
C28_Witness ==
    /\ sc.pc = "done"
    /\ sc.task = "create-file"
    /\ sc.received =
           [k \in {"filename", "content"} |->
               IF k = "filename" THEN Str("x") ELSE Str("hello")]

\* C29: the signature dispatcher prints at most once: nothing when the
\* handler's result is undefined, otherwise one text, which is what the
\* task's output encoder made of the result when the task has one and the
\* JSON text of the result when it has none.
C29_PrintsAtMostOnce ==
    /\ []((sc.gen = "signature" /\ sc.pc = "done") =>
            IF sc.result = Undef
            THEN sc.emitted = <<>> /\ sc.stdout = <<>>
            ELSE sc.emitted =
                   << CASE sc.result.t = "number" ->
                             TokenText(<<NumToken(sc.result.n)>>)
                        [] sc.result.t = "string" /\ sc.encoder ->
                             ValueText(sc.result)
                        [] sc.result.t = "string" /\ ~sc.encoder ->
                             TokenText(<<"\"", sc.result.s, "\"">>) >>)
    /\ [][(sc.gen = "signature" /\ sc'.emitted # sc.emitted) =>
            sc.emitted = <<>> /\ Len(sc'.emitted) = 1]_vars

\* echo has printed what its string() encoder made of hello, and in
\* another run, without an encoder, it would have printed the JSON text.
C29_Witness ==
    /\ sc.gen = "signature"
    /\ sc.pc = "done"
    /\ sc.task = "echo"
    /\ sc.encoder
    /\ sc.emitted = <<ValueText(Str("hello"))>>

====
